---- MODULE Spec2Model ----
(***************************************************************************)
(* Redwood-Wiki: the markdown event-stream stages of markdown_utils.rs and *)
(* codeblock_syntax_highlight.rs, and the Partition iterator of            *)
(* regex_utils.rs they use.                                                *)
(*                                                                         *)
(* A stage is an iterator object: a record holding its fields and, in      *)
(* `iter`, the iterator it wraps.  IterNext(it) is one call of it.next():  *)
(* it returns the iterator after the call (`self`) and the item (`ev`),    *)
(* which is an event, None, or Panic when the call unwound.  A string is   *)
(* the sequence of its characters.                                         *)
(***************************************************************************)
EXTENDS Naturals, Sequences, FiniteSets, TLC

VARIABLES
    input,          \* the Vec<Event> the pipeline is built over
    stream,         \* the outermost stage object, with the stages it wraps
    output,         \* the events the consumer has collected so far
    status,         \* "running", "done" (next() returned None), "panicked"
    failing_lines   \* the lines on which the highlighter's line parser returns Err

vars == <<input, stream, output, status, failing_lines>>

\* ------------------------------------------------------------------ bounds
MaxEvents == 4
MaxRefEvents == 5
MaxText == 3
MaxStageEvents == 3
MaxFiles == 3
MaxCalls == 3
MaxVersionLen == 6
MaxIdText == 6

\* ------------------------------------------------------------------ events
None == [k |-> "None"]
Panic == [k |-> "Panic"]

Text(s) == [k |-> "Text", s |-> s]
Html(s) == [k |-> "Html", s |-> s]
HardBreak == [k |-> "HardBreak"]
SoftBreak == [k |-> "SoftBreak"]
StartLink(link_type, url, title) ==
    [k |-> "Start", tag |-> "Link", link_type |-> link_type, url |-> url, title |-> title]
EndLink(link_type, url, title) ==
    [k |-> "End", tag |-> "Link", link_type |-> link_type, url |-> url, title |-> title]
\* CodeBlockKind
Fenced(lang_str) == [kind |-> "Fenced", lang_str |-> lang_str]
Indented == [kind |-> "Indented"]
StartCodeBlock(language) == [k |-> "Start", tag |-> "CodeBlock", language |-> language]
EndCodeBlock(language) == [k |-> "End", tag |-> "CodeBlock", language |-> language]

IsText(e) == e.k = "Text"
IsStartLink(e) == e.k = "Start" /\ e.tag = "Link"
IsEndLink(e) == e.k = "End" /\ e.tag = "Link"
IsStartShortcutUnknown(e) == IsStartLink(e) /\ e.link_type = "ShortcutUnknown"
IsEndShortcutUnknown(e) == IsEndLink(e) /\ e.link_type = "ShortcutUnknown"
IsStartCodeBlock(e) == e.k = "Start" /\ e.tag = "CodeBlock"
IsEndCodeBlock(e) == e.k = "End" /\ e.tag = "CodeBlock"

\* ------------------------------------------------------------------ iterators
RECURSIVE IterNext(_)

\* std::vec::IntoIter over the input events
VecIter(v) == [kind |-> "Vec", items |-> v]

VecNext(self) ==
    IF self.items = <<>>
    THEN [self |-> self, ev |-> None]
    ELSE [self |-> [self EXCEPT !.items = Tail(self.items)], ev |-> Head(self.items)]

\* ------------------------------------------------------------------ TextMergeStream
TextMergeStream_new(iter) == [kind |-> "TextMerge", iter |-> iter, last_event |-> None]

RECURSIVE TextMergeLoop(_, _)
\* faulty variant: the loop body runs once, a third text event is not merged
TextMergeLoop_Once(iter, string_buf) ==
    LET r == IterNext(iter) IN
    [iter |-> r.self, string_buf |-> string_buf, next_event |-> r.ev]

\* the loop of the merging arm: push every further text event on string_buf
TextMergeLoop(iter, string_buf) ==
    LET r == IterNext(iter) IN
    IF IsText(r.ev)
    THEN TextMergeLoop(r.self, string_buf \o r.ev.s)
    ELSE [iter |-> r.self, string_buf |-> string_buf, next_event |-> r.ev]

RECURSIVE TextMergeStreamNext(_)
\* faulty variant: the merged event is emitted also when empty
TextMergeStreamNext_KeepEmpty(self) ==
    LET last == self.last_event
        r == IterNext(self.iter)
        taken == [self EXCEPT !.last_event = None, !.iter = r.self]
    IN
    IF r.ev = Panic THEN [self |-> taken, ev |-> Panic]
    ELSE IF IsText(last) /\ IsText(r.ev) THEN
        LET m == TextMergeLoop(r.self, last.s \o r.ev.s)
            merged == [self EXCEPT !.iter = m.iter, !.last_event = m.next_event]
        IN
        IF m.next_event = Panic THEN [self |-> merged, ev |-> Panic]
        ELSE [self |-> merged, ev |-> Text(m.string_buf)]
    ELSE IF last = None /\ r.ev # None THEN
        TextMergeStreamNext([taken EXCEPT !.last_event = r.ev])
    ELSE IF last = None /\ r.ev = None THEN
        [self |-> taken, ev |-> None]
    ELSE
        [self |-> [taken EXCEPT !.last_event = r.ev], ev |-> last]

\* faulty variant: the event that ends a merged run is lost
TextMergeStreamNext_DropNext(self) ==
    LET last == self.last_event
        r == IterNext(self.iter)
        taken == [self EXCEPT !.last_event = None, !.iter = r.self]
    IN
    IF r.ev = Panic THEN [self |-> taken, ev |-> Panic]
    ELSE IF IsText(last) /\ IsText(r.ev) THEN
        LET m == TextMergeLoop(r.self, last.s \o r.ev.s)
            merged == [self EXCEPT !.iter = m.iter, !.last_event = None]
        IN
        IF m.next_event = Panic THEN [self |-> merged, ev |-> Panic]
        ELSE IF m.string_buf = <<>> THEN TextMergeStreamNext(merged)
        ELSE [self |-> merged, ev |-> Text(m.string_buf)]
    ELSE IF last = None /\ r.ev # None THEN
        TextMergeStreamNext([taken EXCEPT !.last_event = r.ev])
    ELSE IF last = None /\ r.ev = None THEN
        [self |-> taken, ev |-> None]
    ELSE
        [self |-> [taken EXCEPT !.last_event = r.ev], ev |-> last]

\* faulty variant: the depleted iterator is unwrapped instead of ending the stream
TextMergeStreamNext_UnwrapAtEnd(self) ==
    LET last == self.last_event
        r == IterNext(self.iter)
        taken == [self EXCEPT !.last_event = None, !.iter = r.self]
    IN
    IF r.ev = Panic THEN [self |-> taken, ev |-> Panic]
    ELSE IF IsText(last) /\ IsText(r.ev) THEN
        LET m == TextMergeLoop(r.self, last.s \o r.ev.s)
            merged == [self EXCEPT !.iter = m.iter, !.last_event = m.next_event]
        IN
        IF m.next_event = Panic THEN [self |-> merged, ev |-> Panic]
        ELSE IF m.string_buf = <<>> THEN TextMergeStreamNext(merged)
        ELSE [self |-> merged, ev |-> Text(m.string_buf)]
    ELSE IF last = None /\ r.ev # None THEN
        TextMergeStreamNext([taken EXCEPT !.last_event = r.ev])
    ELSE IF last = None /\ r.ev = None THEN
        [self |-> taken, ev |-> Panic]
    ELSE
        [self |-> [taken EXCEPT !.last_event = r.ev], ev |-> last]

\* TextMergeStream::next
TextMergeStreamNext(self) ==
    LET last == self.last_event           \* self.last_event.take()
        r == IterNext(self.iter)
        taken == [self EXCEPT !.last_event = None, !.iter = r.self]
    IN
    IF r.ev = Panic THEN [self |-> taken, ev |-> Panic]
    ELSE IF IsText(last) /\ IsText(r.ev) THEN
        LET m == TextMergeLoop(r.self, last.s \o r.ev.s)
            merged == [self EXCEPT !.iter = m.iter, !.last_event = m.next_event]
        IN
        IF m.next_event = Panic THEN [self |-> merged, ev |-> Panic]
        ELSE IF m.string_buf = <<>> THEN TextMergeStreamNext(merged)
        ELSE [self |-> merged, ev |-> Text(m.string_buf)]
    ELSE IF last = None /\ r.ev # None THEN
        TextMergeStreamNext([taken EXCEPT !.last_event = r.ev])
    ELSE IF last = None /\ r.ev = None THEN
        [self |-> taken, ev |-> None]
    ELSE
        [self |-> [taken EXCEPT !.last_event = r.ev], ev |-> last]

\* ------------------------------------------------------------------ the link regex
\* the characters of the class [A-Za-z0-9\-_\.\~:/\?\#\[\]@!\$\&'\(\)\*\+,;=]
LinkChars ==
    {"a","b","c","d","e","f","g","h","i","j","k","l","m","n","o","p","q","r","s","t",
     "u","v","w","x","y","z","A","B","C","D","E","F","G","H","I","J","K","L","M","N",
     "O","P","Q","R","S","T","U","V","W","X","Y","Z","0","1","2","3","4","5","6","7",
     "8","9","-","_",".","~",":","/","?","#","[","]","@","!","$","&","'","(",")","*",
     "+",",",";","="}

\* text[a..b), byte offsets counted from 0
Slice(text, a, b) == SubSeq(text, a + 1, b)

\* the literal lit occurs in text at offset i
LiteralAt(text, i, lit) == i + Len(lit) <= Len(text) /\ Slice(text, i, i + Len(lit)) = lit

RECURSIVE LinkCharsEnd(_, _)
\* the end of the longest run of class characters that starts at offset j (greedy +)
LinkCharsEnd(text, j) ==
    IF j < Len(text) /\ text[j + 1] \in LinkChars THEN LinkCharsEnd(text, j + 1) ELSE j

\* the ends of the match of (?P<p>https?)://(?P<l>[...]+) that starts at offset i:
\* none or one; "s?" is greedy, so "https" is tried before "http"
LinkMatchAt(text, i) ==
    LET afterScheme == (IF LiteralAt(text, i, <<"h","t","t","p","s">>) THEN <<i + 5>> ELSE <<>>)
                       \o (IF LiteralAt(text, i, <<"h","t","t","p">>) THEN <<i + 4>> ELSE <<>>)
        ok == SelectSeq(afterScheme, LAMBDA p :
                  LiteralAt(text, p, <<":","/","/">>) /\ LinkCharsEnd(text, p + 3) > p + 3)
    IN IF ok = <<>> THEN {} ELSE {LinkCharsEnd(text, ok[1] + 3)}

RECURSIVE LinkFindIter(_, _)
\* link_regex.find_iter(text) from offset `from`: the leftmost matches, not overlapping
LinkFindIter(text, from) ==
    IF from >= Len(text) THEN <<>>
    ELSE LET ends == LinkMatchAt(text, from) IN
         IF ends = {} THEN LinkFindIter(text, from + 1)
         ELSE LET end == CHOOSE e \in ends : TRUE
              IN <<[start |-> from, end |-> end]>> \o LinkFindIter(text, end)

\* ------------------------------------------------------------------ Partition
NoMatch(text) == [kind |-> "NoMatch", text |-> text]
Match(text) == [kind |-> "Match", text |-> text]

\* Partition::new; iter is the rest of the regex::Matches iterator
Partition_new(iter, text) == [iter |-> iter, text |-> text, state |-> [s |-> "Init"]]

RECURSIVE PartitionNext(_)
\* faulty variant: a match directly adjacent to the previous one yields no part of its own
PartitionNext_SkipAdjacent(self) ==
    IF self.state.s = "Init" THEN
        IF self.iter # <<>> THEN
            LET link == Head(self.iter)
                result == Slice(self.text, 0, link.start)
                next == [self EXCEPT !.iter = Tail(self.iter),
                                     !.state = [s |-> "Intra", link |-> link]]
            IN IF result = <<>> THEN PartitionNext(next)
               ELSE [self |-> next, part |-> NoMatch(result)]
        ELSE
            LET next == [self EXCEPT !.state = [s |-> "Done"]]
            IN IF self.text = <<>> THEN [self |-> next, part |-> None]
               ELSE [self |-> next, part |-> NoMatch(self.text)]
    ELSE IF self.state.s = "Intra" THEN
        LET link == self.state.link
            result == Slice(self.text, link.start, link.end)
            next == [self EXCEPT !.state = [s |-> "Post", link |-> link]]
        IN IF result = <<>> THEN PartitionNext(next)
           ELSE [self |-> next, part |-> Match(result)]
    ELSE IF self.state.s = "Post" THEN
        LET link == self.state.link IN
        IF self.iter # <<>> THEN
            LET next_link == Head(self.iter)
                result == Slice(self.text, link.end, next_link.start)
                next == [self EXCEPT !.iter = Tail(self.iter),
                                     !.state = [s |-> "Intra", link |-> next_link]]
            IN IF result = <<>>
               THEN PartitionNext([next EXCEPT !.state = [s |-> "Post", link |-> next_link]])
               ELSE [self |-> next, part |-> NoMatch(result)]
        ELSE
            LET result == Slice(self.text, link.end, Len(self.text))
                next == [self EXCEPT !.state = [s |-> "Done"]]
            IN IF result = <<>> THEN [self |-> next, part |-> None]
               ELSE [self |-> next, part |-> NoMatch(result)]
    ELSE
        [self |-> self, part |-> None]

\* faulty variant: a zero-width match is emitted as an empty Match part
PartitionNext_EmptyMatch(self) ==
    IF self.state.s = "Init" THEN
        IF self.iter # <<>> THEN
            LET link == Head(self.iter)
                result == Slice(self.text, 0, link.start)
                next == [self EXCEPT !.iter = Tail(self.iter),
                                     !.state = [s |-> "Intra", link |-> link]]
            IN IF result = <<>> THEN PartitionNext(next)
               ELSE [self |-> next, part |-> NoMatch(result)]
        ELSE
            LET next == [self EXCEPT !.state = [s |-> "Done"]]
            IN IF self.text = <<>> THEN [self |-> next, part |-> None]
               ELSE [self |-> next, part |-> NoMatch(self.text)]
    ELSE IF self.state.s = "Intra" THEN
        LET link == self.state.link
            result == Slice(self.text, link.start, link.end)
            next == [self EXCEPT !.state = [s |-> "Post", link |-> link]]
        IN [self |-> next, part |-> Match(result)]
    ELSE IF self.state.s = "Post" THEN
        LET link == self.state.link IN
        IF self.iter # <<>> THEN
            LET next_link == Head(self.iter)
                result == Slice(self.text, link.end, next_link.start)
                next == [self EXCEPT !.iter = Tail(self.iter),
                                     !.state = [s |-> "Intra", link |-> next_link]]
            IN IF result = <<>> THEN PartitionNext(next)
               ELSE [self |-> next, part |-> NoMatch(result)]
        ELSE
            LET result == Slice(self.text, link.end, Len(self.text))
                next == [self EXCEPT !.state = [s |-> "Done"]]
            IN IF result = <<>> THEN [self |-> next, part |-> None]
               ELSE [self |-> next, part |-> NoMatch(result)]
    ELSE
        [self |-> self, part |-> None]

\* faulty variant: the text after the last match is not emitted
PartitionNext_NoRest(self) ==
    IF self.state.s = "Init" THEN
        IF self.iter # <<>> THEN
            LET link == Head(self.iter)
                result == Slice(self.text, 0, link.start)
                next == [self EXCEPT !.iter = Tail(self.iter),
                                     !.state = [s |-> "Intra", link |-> link]]
            IN IF result = <<>> THEN PartitionNext(next)
               ELSE [self |-> next, part |-> NoMatch(result)]
        ELSE
            LET next == [self EXCEPT !.state = [s |-> "Done"]]
            IN IF self.text = <<>> THEN [self |-> next, part |-> None]
               ELSE [self |-> next, part |-> NoMatch(self.text)]
    ELSE IF self.state.s = "Intra" THEN
        LET link == self.state.link
            result == Slice(self.text, link.start, link.end)
            next == [self EXCEPT !.state = [s |-> "Post", link |-> link]]
        IN IF result = <<>> THEN PartitionNext(next)
           ELSE [self |-> next, part |-> Match(result)]
    ELSE IF self.state.s = "Post" THEN
        LET link == self.state.link IN
        IF self.iter # <<>> THEN
            LET next_link == Head(self.iter)
                result == Slice(self.text, link.end, next_link.start)
                next == [self EXCEPT !.iter = Tail(self.iter),
                                     !.state = [s |-> "Intra", link |-> next_link]]
            IN IF result = <<>> THEN PartitionNext(next)
               ELSE [self |-> next, part |-> NoMatch(result)]
        ELSE
            [self |-> [self EXCEPT !.state = [s |-> "Done"]], part |-> None]
    ELSE
        [self |-> self, part |-> None]

\* Partition::next
PartitionNext(self) ==
    IF self.state.s = "Init" THEN
        \* first call of next()
        IF self.iter # <<>> THEN
            LET link == Head(self.iter)
                result == Slice(self.text, 0, link.start)
                next == [self EXCEPT !.iter = Tail(self.iter),
                                     !.state = [s |-> "Intra", link |-> link]]
            IN IF result = <<>> THEN PartitionNext(next)
               ELSE [self |-> next, part |-> NoMatch(result)]
        ELSE
            LET next == [self EXCEPT !.state = [s |-> "Done"]]
            IN IF self.text = <<>> THEN [self |-> next, part |-> None]
               ELSE [self |-> next, part |-> NoMatch(self.text)]
    ELSE IF self.state.s = "Intra" THEN
        LET link == self.state.link
            result == Slice(self.text, link.start, link.end)
            next == [self EXCEPT !.state = [s |-> "Post", link |-> link]]
        IN IF result = <<>> THEN PartitionNext(next)
           ELSE [self |-> next, part |-> Match(result)]
    ELSE IF self.state.s = "Post" THEN
        LET link == self.state.link IN
        IF self.iter # <<>> THEN
            \* there is another link, emit text between the links
            LET next_link == Head(self.iter)
                result == Slice(self.text, link.end, next_link.start)
                next == [self EXCEPT !.iter = Tail(self.iter),
                                     !.state = [s |-> "Intra", link |-> next_link]]
            IN IF result = <<>> THEN PartitionNext(next)
               ELSE [self |-> next, part |-> NoMatch(result)]
        ELSE
            \* emit the entire rest
            LET result == Slice(self.text, link.end, Len(self.text))
                next == [self EXCEPT !.state = [s |-> "Done"]]
            IN IF result = <<>> THEN [self |-> next, part |-> None]
               ELSE [self |-> next, part |-> NoMatch(result)]
    ELSE
        [self |-> self, part |-> None]

RECURSIVE PartitionCollect(_)
\* the parts a Partition yields until it returns None
PartitionCollect(self) ==
    LET r == PartitionNext(self) IN
    IF r.part = None THEN <<>> ELSE <<r.part>> \o PartitionCollect(r.self)

\* DoPartition::partition for the link regex
LinkPartition(text) == Partition_new(LinkFindIter(text, 0), text)

\* ------------------------------------------------------------------ LinkHighlightStream
LinkHighlightStream_new(iter) ==
    [kind |-> "LinkHighlight", iter |-> iter, inject_event |-> <<>>, inside_link |-> FALSE]

\* the closure of flat_map: the events one part becomes
PartEvents(mat) ==
    IF mat.kind = "NoMatch" THEN <<Text(mat.text)>>
    ELSE <<StartLink("Autolink", mat.text, <<>>),
           Text(mat.text),
           EndLink("Autolink", mat.text, <<>>)>>

RECURSIVE FlatMapParts(_)
FlatMapParts(parts) ==
    IF parts = <<>> THEN <<>> ELSE PartEvents(Head(parts)) \o FlatMapParts(Tail(parts))

RECURSIVE LinkHighlightStreamNext(_)
\* faulty variant: link detection is not suspended inside a link
LinkHighlightStreamNext_NoSuspend(self) ==
    IF self.inject_event # <<>> THEN
        [self |-> [self EXCEPT !.inject_event = Tail(self.inject_event)],
         ev |-> Head(self.inject_event)]
    ELSE
        LET r == IterNext(self.iter)
            pulled == [self EXCEPT !.iter = r.self]
        IN
        IF IsText(r.ev) THEN
            LinkHighlightStreamNext(
                [pulled EXCEPT !.inject_event = FlatMapParts(PartitionCollect(LinkPartition(r.ev.s)))])
        ELSE IF IsStartLink(r.ev) THEN [self |-> [pulled EXCEPT !.inside_link = TRUE], ev |-> r.ev]
        ELSE IF IsEndLink(r.ev) THEN [self |-> [pulled EXCEPT !.inside_link = FALSE], ev |-> r.ev]
        ELSE [self |-> pulled, ev |-> r.ev]

\* faulty variant: the upstream is pulled although the queue is not empty
LinkHighlightStreamNext_PullWhileQueued(self) ==
    IF self.inject_event # <<>> THEN
        [self |-> [self EXCEPT !.inject_event = Tail(self.inject_event),
                               !.iter = IterNext(self.iter).self],
         ev |-> Head(self.inject_event)]
    ELSE
        LET r == IterNext(self.iter)
            pulled == [self EXCEPT !.iter = r.self]
        IN
        IF self.inside_link THEN
            [self |-> pulled, ev |-> r.ev]
        ELSE IF IsText(r.ev) THEN
            LinkHighlightStreamNext(
                [pulled EXCEPT !.inject_event = FlatMapParts(PartitionCollect(LinkPartition(r.ev.s)))])
        ELSE IF IsStartLink(r.ev) THEN [self |-> [pulled EXCEPT !.inside_link = TRUE], ev |-> r.ev]
        ELSE IF IsEndLink(r.ev) THEN [self |-> [pulled EXCEPT !.inside_link = FALSE], ev |-> r.ev]
        ELSE [self |-> pulled, ev |-> r.ev]

\* LinkHighlightStream::next
LinkHighlightStreamNext(self) ==
    IF self.inject_event # <<>> THEN
        [self |-> [self EXCEPT !.inject_event = Tail(self.inject_event)],
         ev |-> Head(self.inject_event)]
    ELSE
        LET r == IterNext(self.iter)
            pulled == [self EXCEPT !.iter = r.self]
        IN
        IF self.inside_link THEN
            \* suspend link detection: return self.iter.next()
            [self |-> pulled, ev |-> r.ev]
        ELSE IF IsText(r.ev) THEN
            LinkHighlightStreamNext(
                [pulled EXCEPT !.inject_event = FlatMapParts(PartitionCollect(LinkPartition(r.ev.s)))])
        ELSE IF IsStartLink(r.ev) THEN [self |-> [pulled EXCEPT !.inside_link = TRUE], ev |-> r.ev]
        ELSE IF IsEndLink(r.ev) THEN [self |-> [pulled EXCEPT !.inside_link = FALSE], ev |-> r.ev]
        ELSE [self |-> pulled, ev |-> r.ev]

\* ------------------------------------------------------------------ the highlighter (syntect)
\* the tokens SyntaxSet::find_syntax_by_token knows, here the one the inputs use
SyntaxTokens == {"rs"}

\* find_syntax_by_token(lang_str) for a fenced block, else find_syntax_plain_text()
FindSyntax(language) ==
    IF language.kind = "Fenced" /\ language.lang_str \in SyntaxTokens
    THEN language.lang_str
    ELSE "Plain Text"

\* ClassedHTMLGenerator::new_with_class_style: a generator that has parsed no line
ClassedHTMLGenerator_new(syntax) == [syntax |-> syntax, lines |-> <<>>]

\* parse_html_for_line_which_includes_newline, when it returns Ok
ParseLine(generator, text) == [generator EXCEPT !.lines = Append(generator.lines, text)]

\* finalize(): the HTML of the lines parsed, under the generator's syntax
Finalize(generator) == [html_of |-> generator.lines, syntax |-> generator.syntax]

\* ------------------------------------------------------------------ SyntaxHighlightStream
SyntaxHighlightStream_new(iter) ==
    [kind |-> "SyntaxHighlight", iter |-> iter, inject_event |-> None, html_generator |-> None]

RECURSIVE SyntaxHighlightStreamNext(_)
\* faulty variant: the End tag is emitted first and the Html queued
SyntaxHighlightStreamNext_EndFirst(self) ==
    IF self.inject_event # None THEN
        [self |-> [self EXCEPT !.inject_event = None], ev |-> self.inject_event]
    ELSE
        LET r == IterNext(self.iter)
            pulled == [self EXCEPT !.iter = r.self]
        IN
        IF IsStartCodeBlock(r.ev) THEN
            [self |-> [pulled EXCEPT
                          !.html_generator = ClassedHTMLGenerator_new(FindSyntax(r.ev.language))],
             ev |-> r.ev]
        ELSE IF IsEndCodeBlock(r.ev) THEN
            IF self.html_generator = None
            THEN [self |-> pulled, ev |-> Panic]
            ELSE [self |-> [pulled EXCEPT !.html_generator = None,
                                          !.inject_event = Html(Finalize(self.html_generator))],
                  ev |-> r.ev]
        ELSE IF IsText(r.ev) THEN
            IF self.html_generator # None THEN
                IF r.ev.s \in failing_lines
                THEN [self |-> pulled, ev |-> Panic]
                ELSE SyntaxHighlightStreamNext(
                         [pulled EXCEPT !.html_generator = ParseLine(self.html_generator, r.ev.s)])
            ELSE [self |-> pulled, ev |-> r.ev]
        ELSE [self |-> pulled, ev |-> r.ev]

\* faulty variant: a text event of a code block is parsed and also emitted
SyntaxHighlightStreamNext_EmitBlockText(self) ==
    IF self.inject_event # None THEN
        [self |-> [self EXCEPT !.inject_event = None], ev |-> self.inject_event]
    ELSE
        LET r == IterNext(self.iter)
            pulled == [self EXCEPT !.iter = r.self]
        IN
        IF IsStartCodeBlock(r.ev) THEN
            [self |-> [pulled EXCEPT
                          !.html_generator = ClassedHTMLGenerator_new(FindSyntax(r.ev.language))],
             ev |-> r.ev]
        ELSE IF IsEndCodeBlock(r.ev) THEN
            IF self.html_generator = None
            THEN [self |-> pulled, ev |-> Panic]
            ELSE [self |-> [pulled EXCEPT !.html_generator = None, !.inject_event = r.ev],
                  ev |-> Html(Finalize(self.html_generator))]
        ELSE IF IsText(r.ev) THEN
            IF self.html_generator # None THEN
                IF r.ev.s \in failing_lines
                THEN [self |-> pulled, ev |-> Panic]
                ELSE [self |-> [pulled EXCEPT
                                   !.html_generator = ParseLine(self.html_generator, r.ev.s)],
                      ev |-> r.ev]
            ELSE [self |-> pulled, ev |-> r.ev]
        ELSE [self |-> pulled, ev |-> r.ev]

\* faulty variant: an End(CodeBlock) without a generator is passed through
SyntaxHighlightStreamNext_NoPanic(self) ==
    IF self.inject_event # None THEN
        [self |-> [self EXCEPT !.inject_event = None], ev |-> self.inject_event]
    ELSE
        LET r == IterNext(self.iter)
            pulled == [self EXCEPT !.iter = r.self]
        IN
        IF IsStartCodeBlock(r.ev) THEN
            [self |-> [pulled EXCEPT
                          !.html_generator = ClassedHTMLGenerator_new(FindSyntax(r.ev.language))],
             ev |-> r.ev]
        ELSE IF IsEndCodeBlock(r.ev) THEN
            IF self.html_generator = None
            THEN [self |-> pulled, ev |-> r.ev]
            ELSE [self |-> [pulled EXCEPT !.html_generator = None, !.inject_event = r.ev],
                  ev |-> Html(Finalize(self.html_generator))]
        ELSE IF IsText(r.ev) THEN
            IF self.html_generator # None THEN
                IF r.ev.s \in failing_lines
                THEN [self |-> pulled, ev |-> Panic]
                ELSE SyntaxHighlightStreamNext(
                         [pulled EXCEPT !.html_generator = ParseLine(self.html_generator, r.ev.s)])
            ELSE
                [self |-> pulled, ev |-> r.ev]
        ELSE [self |-> pulled, ev |-> r.ev]

\* faulty variant: the generator is not taken out at End(CodeBlock)
SyntaxHighlightStreamNext_KeepGenerator(self) ==
    IF self.inject_event # None THEN
        [self |-> [self EXCEPT !.inject_event = None], ev |-> self.inject_event]
    ELSE
        LET r == IterNext(self.iter)
            pulled == [self EXCEPT !.iter = r.self]
        IN
        IF IsStartCodeBlock(r.ev) THEN
            [self |-> [pulled EXCEPT
                          !.html_generator = ClassedHTMLGenerator_new(FindSyntax(r.ev.language))],
             ev |-> r.ev]
        ELSE IF IsEndCodeBlock(r.ev) THEN
            IF self.html_generator = None
            THEN [self |-> pulled, ev |-> Panic]
            ELSE [self |-> [pulled EXCEPT !.inject_event = r.ev],
                  ev |-> Html(Finalize(self.html_generator))]
        ELSE IF IsText(r.ev) THEN
            IF self.html_generator # None THEN
                IF r.ev.s \in failing_lines
                THEN [self |-> pulled, ev |-> Panic]
                ELSE SyntaxHighlightStreamNext(
                         [pulled EXCEPT !.html_generator = ParseLine(self.html_generator, r.ev.s)])
            ELSE
                [self |-> pulled, ev |-> r.ev]
        ELSE [self |-> pulled, ev |-> r.ev]

\* faulty variant: a text of the block is passed to the highlighter twice
SyntaxHighlightStreamNext_FeedTwice(self) ==
    IF self.inject_event # None THEN
        [self |-> [self EXCEPT !.inject_event = None], ev |-> self.inject_event]
    ELSE
        LET r == IterNext(self.iter)
            pulled == [self EXCEPT !.iter = r.self]
        IN
        IF IsStartCodeBlock(r.ev) THEN
            [self |-> [pulled EXCEPT
                          !.html_generator = ClassedHTMLGenerator_new(FindSyntax(r.ev.language))],
             ev |-> r.ev]
        ELSE IF IsEndCodeBlock(r.ev) THEN
            IF self.html_generator = None
            THEN [self |-> pulled, ev |-> Panic]
            ELSE [self |-> [pulled EXCEPT !.html_generator = None, !.inject_event = r.ev],
                  ev |-> Html(Finalize(self.html_generator))]
        ELSE IF IsText(r.ev) THEN
            IF self.html_generator # None THEN
                IF r.ev.s \in failing_lines
                THEN [self |-> pulled, ev |-> Panic]
                ELSE SyntaxHighlightStreamNext(
                         [pulled EXCEPT !.html_generator =
                             ParseLine(ParseLine(self.html_generator, r.ev.s), r.ev.s)])
            ELSE
                [self |-> pulled, ev |-> r.ev]
        ELSE [self |-> pulled, ev |-> r.ev]

\* SyntaxHighlightStream::next
SyntaxHighlightStreamNext(self) ==
    IF self.inject_event # None THEN
        \* swap the queued event out and return it
        [self |-> [self EXCEPT !.inject_event = None], ev |-> self.inject_event]
    ELSE
        LET r == IterNext(self.iter)
            pulled == [self EXCEPT !.iter = r.self]
        IN
        IF IsStartCodeBlock(r.ev) THEN
            [self |-> [pulled EXCEPT
                          !.html_generator = ClassedHTMLGenerator_new(FindSyntax(r.ev.language))],
             ev |-> r.ev]
        ELSE IF IsEndCodeBlock(r.ev) THEN
            \* local_html_gen.unwrap() panics when no generator is active
            IF self.html_generator = None
            THEN [self |-> pulled, ev |-> Panic]
            ELSE [self |-> [pulled EXCEPT !.html_generator = None, !.inject_event = r.ev],
                  ev |-> Html(Finalize(self.html_generator))]
        ELSE IF IsText(r.ev) THEN
            IF self.html_generator # None THEN
                \* we are in a highlighted code block; unwrap() panics on a parse error
                IF r.ev.s \in failing_lines
                THEN [self |-> pulled, ev |-> Panic]
                ELSE SyntaxHighlightStreamNext(
                         [pulled EXCEPT !.html_generator = ParseLine(self.html_generator, r.ev.s)])
            ELSE
                \* we are in a regular text element
                [self |-> pulled, ev |-> r.ev]
        ELSE [self |-> pulled, ev |-> r.ev]

\* ------------------------------------------------------------------ UnknownRefHandlingStream
\* the resolver closure behind ref_handler: how it resolves, and the calls it received
RefHandler(mode) == [mode |-> mode, calls |-> <<>>]

\* the events the resolver pushes for a label: a resolved link, the bracketed label
\* as plain text, or nothing
RefHandlerPushed(mode, link_url, link_title, text) ==
    CASE mode = "link" ->
            <<StartLink("Inline", <<"/">> \o text, <<>>),
              Text(<<"#">> \o text),
              EndLink("Inline", <<"/">> \o text, <<>>)>>
      [] mode = "text" -> <<Text(<<"[">> \o text \o <<"]">>)>>
      [] mode = "none" -> <<>>

\* (self.ref_handler)(&mut self.inject_event, &link_url, &link_title, &text): the queue after
RefHandlerCall(ref_handler, inject_event, link_url, link_title, text) ==
    inject_event \o RefHandlerPushed(ref_handler.mode, link_url, link_title, text)

UnknownRefHandlingStream_new(iter, ref_handler) ==
    [kind |-> "UnknownRefHandling", iter |-> iter, inject_event |-> <<>>,
     ref_handler |-> ref_handler]

RECURSIVE UnknownRefDrain(_)
\* faulty variant: the event after the End tag is discarded too
UnknownRefDrain_PastEnd(iter) ==
    LET r == IterNext(iter) IN
    IF IsEndShortcutUnknown(r.ev)
    THEN LET r2 == IterNext(r.self) IN [iter |-> r2.self, last |-> r.ev]
    ELSE IF r.ev = None \/ r.ev = Panic THEN [iter |-> r.self, last |-> r.ev]
    ELSE UnknownRefDrain(r.self)

\* the loop of next(): ignore all events up to End(Link ShortcutUnknown) or the end
UnknownRefDrain(iter) ==
    LET r == IterNext(iter) IN
    IF IsEndShortcutUnknown(r.ev) \/ r.ev = None \/ r.ev = Panic
    THEN [iter |-> r.self, last |-> r.ev]
    ELSE UnknownRefDrain(r.self)

RECURSIVE UnknownRefHandlingStreamNext(_)
\* faulty variant: the resolver is also called, with an empty label, for a link without text
UnknownRefHandlingStreamNext_CallOnEmpty(self) ==
    IF self.inject_event # <<>> THEN
        [self |-> [self EXCEPT !.inject_event = Tail(self.inject_event)],
         ev |-> Head(self.inject_event)]
    ELSE
        LET r == IterNext(self.iter) IN
        IF IsStartShortcutUnknown(r.ev) THEN
            LET r2 == IterNext(r.self)
                called ==
                    IF IsText(r2.ev)
                    THEN [self EXCEPT
                             !.inject_event = RefHandlerCall(
                                 self.ref_handler, self.inject_event, r.ev.url, r.ev.title, r2.ev.s),
                             !.ref_handler.calls = Append(
                                 self.ref_handler.calls,
                                 [link_url |-> r.ev.url, link_title |-> r.ev.title, text |-> r2.ev.s])]
                    ELSE [self EXCEPT
                             !.inject_event = RefHandlerCall(
                                 self.ref_handler, self.inject_event, r.ev.url, r.ev.title, <<>>),
                             !.ref_handler.calls = Append(
                                 self.ref_handler.calls,
                                 [link_url |-> r.ev.url, link_title |-> r.ev.title, text |-> <<>>])]
            IN
            IF r2.ev = Panic THEN [self |-> [called EXCEPT !.iter = r2.self], ev |-> Panic]
            ELSE
                LET d == UnknownRefDrain(r2.self) IN
                IF d.last = Panic THEN [self |-> [called EXCEPT !.iter = d.iter], ev |-> Panic]
                ELSE UnknownRefHandlingStreamNext([called EXCEPT !.iter = d.iter])
        ELSE
            [self |-> [self EXCEPT !.iter = r.self], ev |-> r.ev]

\* faulty variant: when the upstream ends inside the link, None is returned at once
UnknownRefHandlingStreamNext_DropQueueAtEnd(self) ==
    IF self.inject_event # <<>> THEN
        [self |-> [self EXCEPT !.inject_event = Tail(self.inject_event)],
         ev |-> Head(self.inject_event)]
    ELSE
        LET r == IterNext(self.iter) IN
        IF IsStartShortcutUnknown(r.ev) THEN
            LET r2 == IterNext(r.self)
                called ==
                    IF IsText(r2.ev)
                    THEN [self EXCEPT
                             !.inject_event = RefHandlerCall(
                                 self.ref_handler, self.inject_event, r.ev.url, r.ev.title, r2.ev.s),
                             !.ref_handler.calls = Append(
                                 self.ref_handler.calls,
                                 [link_url |-> r.ev.url, link_title |-> r.ev.title, text |-> r2.ev.s])]
                    ELSE self
            IN
            IF r2.ev = Panic THEN [self |-> [called EXCEPT !.iter = r2.self], ev |-> Panic]
            ELSE
                LET d == UnknownRefDrain(r2.self) IN
                IF d.last = Panic THEN [self |-> [called EXCEPT !.iter = d.iter], ev |-> Panic]
                ELSE IF d.last = None THEN [self |-> [called EXCEPT !.iter = d.iter], ev |-> None]
                ELSE UnknownRefHandlingStreamNext([called EXCEPT !.iter = d.iter])
        ELSE
            [self |-> [self EXCEPT !.iter = r.self], ev |-> r.ev]

\* faulty variant: the upstream is pulled although the queue is not empty
UnknownRefHandlingStreamNext_PullWhileQueued(self) ==
    IF self.inject_event # <<>> THEN
        [self |-> [self EXCEPT !.inject_event = Tail(self.inject_event),
                               !.iter = IterNext(self.iter).self],
         ev |-> Head(self.inject_event)]
    ELSE
        LET r == IterNext(self.iter) IN
        IF IsStartShortcutUnknown(r.ev) THEN
            LET r2 == IterNext(r.self)
                called ==
                    IF IsText(r2.ev)
                    THEN [self EXCEPT
                             !.inject_event = RefHandlerCall(
                                 self.ref_handler, self.inject_event, r.ev.url, r.ev.title, r2.ev.s),
                             !.ref_handler.calls = Append(
                                 self.ref_handler.calls,
                                 [link_url |-> r.ev.url, link_title |-> r.ev.title, text |-> r2.ev.s])]
                    ELSE self
            IN
            IF r2.ev = Panic THEN [self |-> [called EXCEPT !.iter = r2.self], ev |-> Panic]
            ELSE
                LET d == UnknownRefDrain(r2.self) IN
                IF d.last = Panic THEN [self |-> [called EXCEPT !.iter = d.iter], ev |-> Panic]
                ELSE UnknownRefHandlingStreamNext([called EXCEPT !.iter = d.iter])
        ELSE
            [self |-> [self EXCEPT !.iter = r.self], ev |-> r.ev]

\* UnknownRefHandlingStream::next
UnknownRefHandlingStreamNext(self) ==
    IF self.inject_event # <<>> THEN
        [self |-> [self EXCEPT !.inject_event = Tail(self.inject_event)],
         ev |-> Head(self.inject_event)]
    ELSE
        LET r == IterNext(self.iter) IN
        IF IsStartShortcutUnknown(r.ev) THEN
            LET r2 == IterNext(r.self)
                \* link text found: the resolver is called and pushes on the queue
                called ==
                    IF IsText(r2.ev)
                    THEN [self EXCEPT
                             !.inject_event = RefHandlerCall(
                                 self.ref_handler, self.inject_event, r.ev.url, r.ev.title, r2.ev.s),
                             !.ref_handler.calls = Append(
                                 self.ref_handler.calls,
                                 [link_url |-> r.ev.url, link_title |-> r.ev.title, text |-> r2.ev.s])]
                    ELSE self
            IN
            IF r2.ev = Panic THEN [self |-> [called EXCEPT !.iter = r2.self], ev |-> Panic]
            ELSE
                \* whatever the second event was, drain up to the End tag
                LET d == UnknownRefDrain(r2.self) IN
                IF d.last = Panic THEN [self |-> [called EXCEPT !.iter = d.iter], ev |-> Panic]
                ELSE UnknownRefHandlingStreamNext([called EXCEPT !.iter = d.iter])
        ELSE
            [self |-> [self EXCEPT !.iter = r.self], ev |-> r.ev]

\* ------------------------------------------------------------------ parse_config_internal
\* what std::fs::read_to_string and toml::from_str make of a file: the read fails
\* with NotFound or with another kind of error, or the content read is or is not a
\* Config
FileOutcomes == {"NotFound", "PermissionDenied", "InvalidToml", "ValidToml"}

\* the io::Result<Config> values, by the file they come from
OkConfig(file) == [k |-> "Ok", file |-> file]
ErrRead(file) == [k |-> "Err", kind |-> "PermissionDenied", file |-> file]
ErrParse(file) == [k |-> "Err", kind |-> "InvalidData", file |-> file]
ErrNoFiles == [k |-> "Err", kind |-> "NotFound", file |-> 0]

\* faulty variant: every read error makes the loop continue with the next file
ParseConfigFile_SkipAnyError(file, outcome) ==
    CASE outcome = "ValidToml" -> OkConfig(file)
      [] outcome = "InvalidToml" -> ErrParse(file)
      [] outcome = "NotFound" -> None
      [] outcome = "PermissionDenied" -> None

\* the body of the loop for one file: the value returned, or None for `continue`
ParseConfigFile(file, outcome) ==
    CASE outcome = "ValidToml" -> OkConfig(file)
      [] outcome = "InvalidToml" -> ErrParse(file)
      [] outcome = "NotFound" -> None
      [] outcome = "PermissionDenied" -> ErrRead(file)

\* the call in progress: the files not yet tried and the value returned, if any
ParseConfigInternal_new(files) ==
    [kind |-> "ParseConfig", files |-> files, next |-> 1, result |-> None]

\* ------------------------------------------------------------------ Database
\* of the characters filter_chars removes, carriage return and form feed
FilteredChars == {"\r", "\f"}

\* Database::filter_chars
filter_chars(s) == SelectSeq(s, LAMBDA c : c \notin FilteredChars)

\* Option::map(|s| Database::filter_chars(s))
MapFilterChars(param) == IF param = None THEN None ELSE [k |-> "Some", s |-> filter_chars(param.s)]
Some(s) == [k |-> "Some", s |-> s]

\* the values a call returns
Ok(n) == [k |-> "Ok", n |-> n]
Err == [k |-> "Err"]

\* the connection after init_tables: table article without a row; the rows are kept
\* by id, which AUTOINCREMENT counts from 1
Database_new == [kind |-> "Database", conn |-> [article |-> <<>>]]

\* the SET list of an UPDATE statement is well formed: assignments separated by commas
SetListOk(set_list) ==
    /\ Len(set_list) % 2 = 1
    /\ \A i \in 1..Len(set_list) : (set_list[i] = ",") <=> (i % 2 = 0)

RECURSIVE SqlAssign(_, _, _)
\* the row after the assignments of a SET list, each ? bound to the next argument
SqlAssign(row, set_list, arguments) ==
    IF set_list = <<>> THEN row
    ELSE LET a == Head(set_list) IN
         IF a = "," THEN SqlAssign(row, Tail(set_list), arguments)
         ELSE IF a = " revision = revision + 1 "
         THEN SqlAssign([row EXCEPT !.revision = @ + 1], Tail(set_list), arguments)
         ELSE SqlAssign(
                  CASE a = " title = ? " -> [row EXCEPT !.title = Head(arguments)]
                    [] a = " text = ? " -> [row EXCEPT !.text = Head(arguments)]
                    [] a = " date_modified = ? " -> [row EXCEPT !.date_modified = Head(arguments)],
                  Tail(set_list), Tail(arguments))

\* title TEXT NOT NULL UNIQUE: no two rows of the table have the same title
TitlesUnique(article) ==
    \A i \in 1..Len(article) : \A j \in 1..Len(article) :
        article[i].title = article[j].title => i = j

\* conn.execute of "UPDATE article SET <set_list> WHERE id = ?": a statement that
\* does not parse or breaks a constraint fails and changes nothing
SqlExecuteUpdate(conn, query, arguments) ==
    LET set_list == SubSeq(query, 2, Len(query) - 1)
        id == arguments[Len(arguments)]
    IN
    IF ~SetListOk(set_list) THEN [conn |-> conn, result |-> Err]
    ELSE IF id \notin 1..Len(conn.article) THEN [conn |-> conn, result |-> Ok(0)]
    ELSE LET updated == [conn.article EXCEPT ![id] = SqlAssign(@, set_list, arguments)] IN
         IF TitlesUnique(updated)
         THEN [conn |-> [conn EXCEPT !.article = updated], result |-> Ok(1)]
         ELSE [conn |-> conn, result |-> Err]

RECURSIVE UpdateQuery(_, _, _, _)
\* the for loop of update_article over (title, " title = ? "), (text, " text = ? ")
UpdateQuery(params, query, arguments, need_delim) ==
    IF params = <<>> THEN [query |-> query, arguments |-> arguments]
    ELSE LET param == Head(params)[1]
             sql_str == Head(params)[2]
         IN IF param = None THEN UpdateQuery(Tail(params), query, arguments, need_delim)
            ELSE UpdateQuery(Tail(params),
                             (IF need_delim THEN Append(query, ",") ELSE query) \o <<sql_str>>,
                             Append(arguments, param.s),
                             TRUE)

\* faulty variant: a statement without assignments of title or text is not sent
update_article_SkipEmpty(self, id, title, text, now) ==
    LET q == UpdateQuery(<< <<MapFilterChars(title), " title = ? ">>,
                            <<MapFilterChars(text), " text = ? ">> >>,
                         <<"UPDATE article SET">>, <<>>, FALSE)
        query == q.query \o <<",", " date_modified = ? ", ",", " revision = revision + 1 ",
                              "WHERE id = ?">>
        arguments == q.arguments \o <<now, id>>
        r == SqlExecuteUpdate(self.conn, query, arguments)
    IN IF title = None /\ text = None THEN [self |-> self, result |-> Ok(0)]
       ELSE [self |-> [self EXCEPT !.conn = r.conn], result |-> r.result]

\* faulty variant: an absent title is written as the empty string
update_article_AbsentAsEmpty(self, id, title, text, now) ==
    LET q == UpdateQuery(<< <<MapFilterChars(IF title = None /\ text # None THEN Some(<<>>) ELSE title),
                              " title = ? ">>,
                            <<MapFilterChars(text), " text = ? ">> >>,
                         <<"UPDATE article SET">>, <<>>, FALSE)
        query == q.query \o <<",", " date_modified = ? ", ",", " revision = revision + 1 ",
                              "WHERE id = ?">>
        arguments == q.arguments \o <<now, id>>
        r == SqlExecuteUpdate(self.conn, query, arguments)
    IN [self |-> [self EXCEPT !.conn = r.conn], result |-> r.result]

\* Database::update_article
update_article(self, id, title, text, now) ==
    LET q == UpdateQuery(<< <<MapFilterChars(title), " title = ? ">>,
                            <<MapFilterChars(text), " text = ? ">> >>,
                         <<"UPDATE article SET">>, <<>>, FALSE)
        query == q.query \o <<",", " date_modified = ? ", ",", " revision = revision + 1 ",
                              "WHERE id = ?">>
        arguments == q.arguments \o <<now, id>>
        r == SqlExecuteUpdate(self.conn, query, arguments)
    IN [self |-> [self EXCEPT !.conn = r.conn], result |-> r.result]

\* conn.execute of the INSERT of create_article
SqlExecuteInsert(conn, title, text, date_created, date_modified, revision) ==
    LET inserted == Append(conn.article,
                           [title |-> title, text |-> text, date_created |-> date_created,
                            date_modified |-> date_modified, revision |-> revision])
    IN IF TitlesUnique(inserted)
       THEN [conn |-> [conn EXCEPT !.article = inserted], result |-> Ok(1)]
       ELSE [conn |-> conn, result |-> Err]

\* Database::create_article; the value returned is the new id, or None
create_article(self, article, now) ==
    IF article.title = <<>> THEN [self |-> self, result |-> None]
    ELSE LET r == SqlExecuteInsert(self.conn, filter_chars(article.title),
                                   filter_chars(article.text), now, now, article.revision)
         IN IF r.result = Ok(1)
            THEN [self |-> [self EXCEPT !.conn = r.conn], result |-> Ok(Len(r.conn.article))]
            ELSE [self |-> self, result |-> None]

\* ------------------------------------------------------------------ WikiSemVer
Digits == {"0", "1", "2", "3", "4", "5", "6", "7", "8", "9"}
\* u32::MAX, 4294967295, as its decimal digits
U32MaxDigits == <<"4", "2", "9", "4", "9", "6", "7", "2", "9", "5">>

DigitValue(c) ==
    CASE c = "0" -> 0 [] c = "1" -> 1 [] c = "2" -> 2 [] c = "3" -> 3 [] c = "4" -> 4
      [] c = "5" -> 5 [] c = "6" -> 6 [] c = "7" -> 7 [] c = "8" -> 8 [] c = "9" -> 9

RECURSIVE StripZeros(_)
\* the canonical decimal digits of the number written by the digits s
StripZeros(s) ==
    IF Len(s) > 1 /\ s[1] = "0" THEN StripZeros(Tail(s)) ELSE s

RECURSIVE DigitsLeq(_, _)
\* a <= b for digit sequences of the same length
DigitsLeq(a, b) ==
    IF a = <<>> THEN TRUE
    ELSE IF DigitValue(a[1]) # DigitValue(b[1]) THEN DigitValue(a[1]) < DigitValue(b[1])
    ELSE DigitsLeq(Tail(a), Tail(b))

\* the number written by the canonical digits n fits a u32
FitsU32(n) ==
    \/ Len(n) < Len(U32MaxDigits)
    \/ Len(n) = Len(U32MaxDigits) /\ DigitsLeq(n, U32MaxDigits)

\* str::parse::<u32>: an optional "+", then one or more digits, the value within
\* u32; the value is held as its canonical decimal digits
StrParseU32(in_str) ==
    LET digits == IF in_str # <<>> /\ in_str[1] = "+" THEN Tail(in_str) ELSE in_str IN
    IF digits # <<>> /\ (\A i \in 1..Len(digits) : digits[i] \in Digits)
       /\ FitsU32(StripZeros(digits))
    THEN Some(StripZeros(digits))
    ELSE None

\* parse_u32
parse_u32(in_str) ==
    IF in_str # <<>> /\ in_str[1] = "+" THEN None ELSE StrParseU32(in_str)

RECURSIVE StrSplit(_, _)
\* str::split(sep), collected: the pieces between the separators, empty ones included
StrSplit(s, sep) ==
    IF \A i \in 1..Len(s) : s[i] # sep THEN <<s>>
    ELSE LET i == CHOOSE i \in 1..Len(s) : s[i] = sep /\ \A j \in 1..(i - 1) : s[j] # sep
         IN <<SubSeq(s, 1, i - 1)>> \o StrSplit(SubSeq(s, i + 1, Len(s)), sep)

ErrInvalidType == [k |-> "Err", kind |-> "InvalidType"]

\* <WikiSemVer as FromSql>::column_result on a text value: the first three pieces
\* of version_str.split('.') are taken
WikiSemVer_column_result(version_str) ==
    LET version_iter == StrSplit(version_str, ".") IN
    IF Len(version_iter) >= 3 THEN
        LET major == parse_u32(version_iter[1])
            minor == parse_u32(version_iter[2])
            patch == parse_u32(version_iter[3])
        IN IF major # None /\ minor # None /\ patch # None
           THEN [k |-> "Ok", major |-> major.s, minor |-> minor.s, patch |-> patch.s]
           ELSE ErrInvalidType
    ELSE ErrInvalidType

\* ------------------------------------------------------------------ expand_id_in_text
\* the pieces of format!("<a href='../../article/{}'>{}</a>", id, title)
AnchorHead ==
    <<"<", "a", " ", "h", "r", "e", "f", "=", "'", ".", ".", "/", ".", ".", "/",
      "a", "r", "t", "i", "c", "l", "e", "/">>
AnchorMid == <<"'", ">">>
AnchorTail == <<"<", "/", "a", ">">>
UnknownArticle ==
    <<"U", "n", "k", "n", "o", "w", "n", " ", "A", "r", "t", "i", "c", "l", "e", "!">>

\* db.get_article_title(id) on a store that holds article 1 with the title "T"
get_article_title(id) == IF id = <<"1">> THEN Some(<<"T">>) ELSE None

\* id_buf parsed as a row id: one or more digits within the integer range; the id
\* is held as its canonical decimal digits, which is how "{}" prints it
ParseRowid(id_buf) ==
    IF id_buf # <<>> /\ (\A i \in 1..Len(id_buf) : id_buf[i] \in Digits)
       /\ FitsU32(StripZeros(id_buf))
    THEN Ok(StripZeros(id_buf))
    ELSE Err

\* the anchor pushed for a parsed id
ArticleAnchor(id) ==
    LET found == get_article_title(id)
        title == IF found = None THEN UnknownArticle ELSE found.s
    IN AnchorHead \o id \o AnchorMid \o title \o AnchorTail

ParserInit == [k |-> "Init"]
MatchPrefix1 == [k |-> "MatchPrefix1"]
MatchPrefix2 == [k |-> "MatchPrefix2"]
MatchRowid(id_buf) == [k |-> "MatchRowid", id_buf |-> id_buf]

ExpandId_new(text) ==
    [kind |-> "ExpandId", rest |-> text, parser_state |-> ParserInit, str_buf |-> <<>>]

\* one turn of the loop over text.bytes()
ExpandIdByte(self, ascii_char) ==
    LET parser_state == self.parser_state
        str_buf == self.str_buf
    IN
    CASE parser_state.k = "Init" ->
            IF ascii_char # "i"
            THEN [self EXCEPT !.str_buf = Append(str_buf, ascii_char)]
            ELSE [self EXCEPT !.parser_state = MatchPrefix1]
      [] parser_state.k = "MatchPrefix1" ->
            IF ascii_char # "d"
            THEN [self EXCEPT !.str_buf = str_buf \o <<"i">> \o <<ascii_char>>,
                              !.parser_state = ParserInit]
            ELSE [self EXCEPT !.parser_state = MatchPrefix2]
      [] parser_state.k = "MatchPrefix2" ->
            IF ascii_char # ":"
            THEN [self EXCEPT !.str_buf = str_buf \o <<"i", "d">> \o <<ascii_char>>,
                              !.parser_state = ParserInit]
            ELSE [self EXCEPT !.parser_state = MatchRowid(<<>>)]
      [] parser_state.k = "MatchRowid" ->
            IF ascii_char \notin Digits
            THEN LET id == ParseRowid(parser_state.id_buf)
                     pushed == IF id # Err
                               THEN ArticleAnchor(id.n)
                               ELSE <<"i", "d", ":">> \o parser_state.id_buf
                 IN [self EXCEPT !.str_buf = str_buf \o pushed \o <<ascii_char>>,
                                 !.parser_state = ParserInit]
            ELSE [self EXCEPT !.parser_state = MatchRowid(Append(parser_state.id_buf, ascii_char))]

\* ------------------------------------------------------------------ dispatch
\* it.next() for the iterator types of the pipeline
IterNext(it) ==
    CASE it.kind = "Vec" -> VecNext(it)
      [] it.kind = "TextMerge" -> TextMergeStreamNext(it)
      [] it.kind = "LinkHighlight" -> LinkHighlightStreamNext(it)
      [] it.kind = "SyntaxHighlight" -> SyntaxHighlightStreamNext(it)
      [] it.kind = "UnknownRefHandling" -> UnknownRefHandlingStreamNext(it)

RECURSIVE Collect(_)
\* Iterator::collect::<Vec<Event>>(): pull until None (or until a call unwinds)
Collect(it) ==
    LET r == IterNext(it) IN
    IF r.ev = None \/ r.ev = Panic THEN <<>>
    ELSE <<r.ev>> \o Collect(r.self)

\* ------------------------------------------------------------------ inputs
SeqsUpTo(S, n) == UNION {[1..m -> S] : m \in 0..n}

MergeTexts == {<<>>, <<"a">>, <<"b">>}
MergeEvents == {Text(s) : s \in MergeTexts} \cup {HardBreak, SoftBreak}

\* "http://a" and "https://b"
Url1 == <<"h","t","t","p",":","/","/","a">>
Url2 == <<"h","t","t","p","s",":","/","/","b">>

\* "http://": the scheme with no character after it, which is no URL
BareScheme == <<"h","t","t","p",":","/","/">>

\* "", "x ", "http://a" and "http:// http://a https://b y"
LinkTexts ==
    {<<>>, <<"x"," ">>, Url1,
     BareScheme \o <<" ">> \o Url1 \o <<" ">> \o Url2 \o <<" ","y">>}
LinkInputEvents ==
    {Text(s) : s \in LinkTexts}
    \cup {HardBreak,
          StartLink("Autolink", Url1, <<>>), EndLink("Autolink", Url1, <<>>),
          StartLink("Inline", <<"u">>, <<"t">>), EndLink("Inline", <<"u">>, <<"t">>)}

\* "http", "://a" and "b": the pieces of the URL "http://ab", and a blank
FragmentTexts == {<<"h","t","t","p">>, <<":","/","/","a">>, <<"b">>, <<" ">>}
FragmentInputEvents ==
    {Text(s) : s \in FragmentTexts}
    \cup {HardBreak, StartLink("Inline", <<"u">>, <<"t">>), EndLink("Inline", <<"u">>, <<"t">>)}

\* a complete line "a\n" and a text "b" that ends in no line terminator
SyntaxTexts == {<<"a","\n">>, <<"b">>}
SyntaxInputEvents ==
    {Text(s) : s \in SyntaxTexts}
    \cup {HardBreak, Html([raw |-> <<"<","b",">">>]),
          StartCodeBlock(Fenced("rs")), EndCodeBlock(Fenced("rs")),
          StartCodeBlock(Indented), EndCodeBlock(Indented)}

RefStart == StartLink("ShortcutUnknown", <<"d">>, <<"t">>)
RefEnd == EndLink("ShortcutUnknown", <<"d">>, <<"t">>)
RefInputEvents == {RefStart, RefEnd, Text(<<"k">>), Text(<<"z">>), HardBreak}
RefHandlerModes == {"link", "text", "none"}

PartitionChars == {"a", "-"}

\* a regex::Match as far as Partition reads it: start() and end()
MatchSpans(n) == {m \in [start : 0..n, end : 0..n] : m.start <= m.end}

\* span b may follow span a in what find_iter yields: matches do not overlap, and an
\* empty match is reported neither at the end of the previous match nor directly
\* before the next
MayFollow(a, b) ==
    /\ b.start >= a.end
    /\ (a.start = a.end \/ b.start = b.end) => b.start > a.end

RECURSIVE SpansInOrder(_)
\* a set of spans that follow one another, as the sequence find_iter yields
SpansInOrder(S) ==
    IF S = {} THEN <<>>
    ELSE LET first == CHOOSE m \in S : \A o \in S \ {m} : MayFollow(m, o)
         IN <<first>> \o SpansInOrder(S \ {first})

\* every sequence find_iter can yield on a text of n characters, whatever the pattern
MatchLists(n) ==
    {SpansInOrder(S) : S \in {T \in SUBSET MatchSpans(n) :
        \A a \in T : \A b \in T \ {a} : MayFollow(a, b) \/ MayFollow(b, a)}}

\* titles "a", "b\r", "\r" and "", texts "x" and "y\f"
ArticleTitles == {<<"a">>, <<"b", "\r">>, <<"\r">>, <<>>}
ArticleTexts == {<<"x">>, <<"y", "\f">>}

\* the characters of the stored version strings: a digit, the separator, a sign, a letter
VersionChars == {"1", ".", "+", "a"}

\* a URL, a plain text, a break and the tags of a fenced code block
PipelineInputEvents ==
    {Text(Url1), Text(<<"x", " ">>), HardBreak,
     StartCodeBlock(Fenced("rs")), EndCodeBlock(Fenced("rs"))}

\* the bytes of the rendered text: the letters of the prefix, a digit, another byte
IdChars == {"i", "d", ":", "1", "x"}

\* ------------------------------------------------------------------ the consumer
\* one pull of the consumer on the outermost stage
Pull ==
    /\ status = "running"
    /\ LET r == IterNext(stream) IN
        /\ stream' = r.self
        /\ IF r.ev = None THEN status' = "done" /\ output' = output
           ELSE IF r.ev = Panic THEN status' = "panicked" /\ output' = output
           ELSE status' = status /\ output' = Append(output, r.ev)
    /\ UNCHANGED <<input, failing_lines>>

TextMergeNext == stream.kind = "TextMerge" /\ Pull

InitMerge ==
    /\ input \in SeqsUpTo(MergeEvents, MaxEvents)
    /\ stream = TextMergeStream_new(VecIter(input))
    /\ output = <<>>
    /\ status = "running"
    /\ failing_lines = {}

NextMerge == TextMergeNext

SpecMerge == InitMerge /\ [][NextMerge]_vars

LinkHighlightNext == stream.kind = "LinkHighlight" /\ Pull

InitLink ==
    /\ input \in SeqsUpTo(LinkInputEvents, MaxEvents)
    /\ stream = LinkHighlightStream_new(VecIter(input))
    /\ output = <<>>
    /\ status = "running"
    /\ failing_lines = {}

NextLink == LinkHighlightNext

SpecLink == InitLink /\ [][NextLink]_vars

SyntaxHighlightNext == stream.kind = "SyntaxHighlight" /\ Pull

\* the grammars of SyntaxSet::load_defaults_newlines() parse every line: no line fails
InitSyntax ==
    /\ input \in SeqsUpTo(SyntaxInputEvents, MaxEvents)
    /\ stream = SyntaxHighlightStream_new(VecIter(input))
    /\ output = <<>>
    /\ status = "running"
    /\ failing_lines = {}

NextSyntax == SyntaxHighlightNext

SpecSyntax == InitSyntax /\ [][NextSyntax]_vars

\* the stage over a highlighter whose line parser returns Err for the lines of
\* failing_lines: parse_html_for_line_which_includes_newline returns a Result
InitSyntaxFail ==
    /\ input \in SeqsUpTo(SyntaxInputEvents, MaxEvents)
    /\ stream = SyntaxHighlightStream_new(VecIter(input))
    /\ output = <<>>
    /\ status = "running"
    /\ failing_lines \in SUBSET SyntaxTexts

NextSyntaxFail == SyntaxHighlightNext

SpecSyntaxFail == InitSyntaxFail /\ [][NextSyntaxFail]_vars

UnknownRefHandlingNext == stream.kind = "UnknownRefHandling" /\ Pull

InitRef ==
    /\ input \in SeqsUpTo(RefInputEvents, MaxRefEvents)
    /\ \E mode \in RefHandlerModes :
        stream = UnknownRefHandlingStream_new(VecIter(input), RefHandler(mode))
    /\ output = <<>>
    /\ status = "running"
    /\ failing_lines = {}

NextRef == UnknownRefHandlingNext

SpecRef == InitRef /\ [][NextRef]_vars

\* the caller of DoPartition::partition pulls one part
PartitionPull ==
    /\ status = "running"
    /\ LET r == PartitionNext(stream) IN
        /\ stream' = r.self
        /\ IF r.part = None THEN status' = "done" /\ output' = output
           ELSE status' = status /\ output' = Append(output, r.part)
    /\ UNCHANGED <<input, failing_lines>>

InitPartition ==
    /\ \E n \in 0..MaxText :
        \E text \in [1..n -> PartitionChars] :
            \E matches \in MatchLists(n) :
                /\ input = [text |-> text, matches |-> matches]
                /\ stream = Partition_new(matches, text)
    /\ output = <<>>
    /\ status = "running"
    /\ failing_lines = {}

NextPartition == PartitionPull

SpecPartition == InitPartition /\ [][NextPartition]_vars

\* one turn of the loop of parse_config_internal, or its end; output lists the
\* files read
ParseConfigStep ==
    /\ status = "running"
    /\ stream.kind = "ParseConfig"
    /\ IF stream.next > Len(stream.files)
       THEN /\ stream' = [stream EXCEPT !.result = ErrNoFiles]
            /\ status' = "done"
            /\ output' = output
       ELSE LET r == ParseConfigFile(stream.next, stream.files[stream.next]) IN
            /\ stream' = [stream EXCEPT !.next = @ + 1, !.result = r]
            /\ status' = IF r = None THEN "running" ELSE "done"
            /\ output' = Append(output, stream.next)
    /\ UNCHANGED <<input, failing_lines>>

InitConfig ==
    /\ input \in SeqsUpTo(FileOutcomes, MaxFiles)
    /\ stream = ParseConfigInternal_new(input)
    /\ output = <<>>
    /\ status = "running"
    /\ failing_lines = {}

NextConfig == ParseConfigStep

SpecConfig == InitConfig /\ [][NextConfig]_vars

\* the request handlers call the database under its lock, one call after the other;
\* input is the clock Utc::now() reads, output the last call and what it returned
CreateArticle ==
    /\ stream.kind = "Database"
    /\ input.now < MaxCalls
    /\ \E title \in ArticleTitles : \E text \in ArticleTexts :
        LET r == create_article(stream, [title |-> title, text |-> text, revision |-> 0],
                                input.now)
        IN /\ stream' = r.self
           /\ output' = <<[call |-> "create_article", id |-> 0, title |-> Some(title),
                           text |-> Some(text), result |-> r.result]>>
    /\ input' = [input EXCEPT !.now = @ + 1]
    /\ UNCHANGED <<status, failing_lines>>

UpdateArticle ==
    /\ stream.kind = "Database"
    /\ input.now < MaxCalls
    /\ \E id \in 1..(Len(stream.conn.article) + 1) :
       \E title \in {None} \cup {Some(t) : t \in ArticleTitles} :
       \E text \in {None} \cup {Some(t) : t \in ArticleTexts} :
        LET r == update_article(stream, id, title, text, input.now)
        IN /\ stream' = r.self
           /\ output' = <<[call |-> "update_article", id |-> id, title |-> title,
                           text |-> text, result |-> r.result]>>
    /\ input' = [input EXCEPT !.now = @ + 1]
    /\ UNCHANGED <<status, failing_lines>>

InitDb ==
    /\ input = [now |-> 0]
    /\ stream = Database_new
    /\ output = <<>>
    /\ status = "running"
    /\ failing_lines = {}

NextDb == CreateArticle \/ UpdateArticle

SpecDb == InitDb /\ [][NextDb]_vars

\* get_table_layout reads the version column of the stored row
ReadVersion ==
    /\ status = "running"
    /\ stream.kind = "WikiSemVer"
    /\ stream' = [stream EXCEPT !.result = WikiSemVer_column_result(input)]
    /\ status' = "done"
    /\ UNCHANGED <<input, output, failing_lines>>

InitSemVer ==
    /\ input \in SeqsUpTo(VersionChars, MaxVersionLen)
    /\ stream = [kind |-> "WikiSemVer", result |-> None]
    /\ output = <<>>
    /\ status = "running"
    /\ failing_lines = {}

NextSemVer == ReadVersion

SpecSemVer == InitSemVer /\ [][NextSemVer]_vars

\* the body of the for loop of expand_id_in_text, for the next byte of the text
ExpandIdStep ==
    /\ status = "running"
    /\ stream.kind = "ExpandId"
    /\ stream.rest # <<>>
    /\ stream' = [ExpandIdByte(stream, Head(stream.rest)) EXCEPT !.rest = Tail(stream.rest)]
    /\ UNCHANGED <<input, output, status, failing_lines>>

\* the loop is over: String::from_utf8(str_buf) is returned
ExpandIdReturn ==
    /\ status = "running"
    /\ stream.kind = "ExpandId"
    /\ stream.rest = <<>>
    /\ output' = stream.str_buf
    /\ status' = "done"
    /\ UNCHANGED <<input, stream, failing_lines>>

InitExpandId ==
    /\ input \in SeqsUpTo(IdChars, MaxIdText)
    /\ stream = ExpandId_new(input)
    /\ output = <<>>
    /\ status = "running"
    /\ failing_lines = {}

NextExpandId == ExpandIdStep \/ ExpandIdReturn

SpecExpandId == InitExpandId /\ [][NextExpandId]_vars

\* the pipeline order: TextMergeStream feeding SyntaxHighlightStream
MergeSyntaxNext ==
    stream.kind = "SyntaxHighlight" /\ stream.iter.kind = "TextMerge" /\ Pull

InitMergeSyntax ==
    /\ input \in SeqsUpTo(SyntaxInputEvents, MaxEvents)
    /\ stream = SyntaxHighlightStream_new(TextMergeStream_new(VecIter(input)))
    /\ output = <<>>
    /\ status = "running"
    /\ failing_lines = {}

NextMergeSyntax == MergeSyntaxNext

SpecMergeSyntax == InitMergeSyntax /\ [][NextMergeSyntax]_vars

\* the pipeline order: TextMergeStream, SyntaxHighlightStream, LinkHighlightStream
PipelineNext ==
    /\ stream.kind = "LinkHighlight"
    /\ stream.iter.kind = "SyntaxHighlight"
    /\ stream.iter.iter.kind = "TextMerge"
    /\ Pull

InitPipeline ==
    /\ input \in SeqsUpTo(PipelineInputEvents, MaxEvents)
    /\ stream = LinkHighlightStream_new(
                    SyntaxHighlightStream_new(TextMergeStream_new(VecIter(input))))
    /\ output = <<>>
    /\ status = "running"
    /\ failing_lines = {}

NextPipeline == PipelineNext

SpecPipeline == InitPipeline /\ [][NextPipeline]_vars

\* the pipeline order: TextMergeStream feeding LinkHighlightStream
MergeLinkNext ==
    stream.kind = "LinkHighlight" /\ stream.iter.kind = "TextMerge" /\ Pull

InitMergeLink ==
    /\ input \in SeqsUpTo(FragmentInputEvents, MaxEvents)
    /\ stream = LinkHighlightStream_new(TextMergeStream_new(VecIter(input)))
    /\ output = <<>>
    /\ status = "running"
    /\ failing_lines = {}

NextMergeLink == MergeLinkNext

SpecMergeLink == InitMergeLink /\ [][NextMergeLink]_vars

\* any one of the four stages over a finite upstream, pulled until it ends
InitStages ==
    /\ \/ /\ input \in SeqsUpTo(MergeEvents, MaxStageEvents)
          /\ stream = TextMergeStream_new(VecIter(input))
       \/ /\ input \in SeqsUpTo(LinkInputEvents, MaxStageEvents)
          /\ stream = LinkHighlightStream_new(VecIter(input))
       \/ /\ input \in SeqsUpTo(RefInputEvents, MaxStageEvents)
          /\ \E mode \in RefHandlerModes :
              stream = UnknownRefHandlingStream_new(VecIter(input), RefHandler(mode))
       \/ /\ input \in SeqsUpTo(SyntaxInputEvents, MaxStageEvents)
          /\ stream = SyntaxHighlightStream_new(VecIter(input))
    /\ output = <<>>
    /\ status = "running"
    /\ failing_lines = {}

NextStages ==
    \/ TextMergeNext
    \/ LinkHighlightNext
    \/ UnknownRefHandlingNext
    \/ SyntaxHighlightNext

SpecStages == InitStages /\ [][NextStages]_vars

\* ------------------------------------------------------------------ runs of text events
NonTexts(evs) == SelectSeq(evs, LAMBDA e : ~IsText(e))

\* the number of non-text events of evs before position i
NonTextBefore(evs, i) == Cardinality({j \in 1..(i - 1) : ~IsText(evs[j])})

\* the positions of the g-th maximal run of text events of evs: the text events
\* after exactly g non-text events (g = 0 is the run before the first one)
RunPositions(evs, g) == {i \in 1..Len(evs) : IsText(evs[i]) /\ NonTextBefore(evs, i) = g}

\* the text events of that run, in order (the positions of a run are consecutive)
Run(evs, g) ==
    LET pos == RunPositions(evs, g) IN
    IF pos = {} THEN <<>>
    ELSE LET first == CHOOSE i \in pos : \A j \in pos : i <= j
         IN [n \in 1..Cardinality(pos) |-> evs[first + n - 1]]

RECURSIVE ConcatTexts(_)
ConcatTexts(evs) == IF evs = <<>> THEN <<>> ELSE Head(evs).s \o ConcatTexts(Tail(evs))

Runs(evs) == 0..Len(NonTexts(evs))

\* ------------------------------------------------------------------ TextMergeStream: claims

\* C5: every maximal run of N >= 1 consecutive text events with concatenated content C
\* comes out as exactly one text event with content C when C is non-empty and as no
\* event when C is empty, and no run is merged across a non-text event.
C5_MergeCompleteness ==
    status = "done" =>
        /\ NonTexts(output) = NonTexts(input)
        /\ \A g \in Runs(input) :
            LET run == Run(input, g)
                C == ConcatTexts(run)
            IN Len(run) >= 1 =>
                Run(output, g) = IF C = <<>> THEN <<>> ELSE <<Text(C)>>

\* C6: TextMergeStream is idempotent: merging the merged stream again changes nothing.
C6_MergeIdempotent ==
    status = "done" => Collect(TextMergeStream_new(VecIter(output))) = output

C6_Witness ==
    /\ status = "done"
    /\ output # input
    /\ \E i \in 1..Len(output) : IsText(output[i])
    /\ \E g \in Runs(input) : Len(Run(input, g)) >= 2

\* C7: the non-text events of the output are those of the input, in order, and every
\* text event of the output is the only one between its two non-text neighbours and
\* holds the concatenation of the run between the same two neighbours of the input.
C7_NonTextPreserved ==
    status = "done" =>
        /\ NonTexts(output) = NonTexts(input)
        /\ \A g \in Runs(input) :
            /\ Len(Run(output, g)) <= 1
            /\ Len(Run(output, g)) = 1 =>
                /\ Len(Run(input, g)) >= 1
                /\ Run(output, g)[1].s = ConcatTexts(Run(input, g))

C7_Witness ==
    /\ status = "done"
    /\ Len(NonTexts(input)) >= 2
    /\ NonTexts(input)[1] # NonTexts(input)[2]
    /\ Len(Run(input, 1)) >= 2
    /\ Len(Run(output, 1)) = 1

\* the upstream events the stage has not emitted yet: the one it holds, then the rest
MergePending(self) ==
    (IF self.last_event = None THEN <<>> ELSE <<self.last_event>>) \o self.iter.items

\* the stage is about to merge a run of two or more text events whose content is empty
EmptyRunAhead(self) ==
    LET run == Run(MergePending(self), 0) IN
    /\ Len(run) >= 2
    /\ ConcatTexts(run) = <<>>

\* C8: a pull that merges a run of two or more text events whose concatenated content
\* is empty emits nothing for the run: it returns the event that follows the run, or
\* end of stream when nothing follows.
C8_EmptyRunDropped ==
    [][(status = "running" /\ EmptyRunAhead(stream)) =>
        LET pending == MergePending(stream)
            n == Len(Run(pending, 0))
            after == SubSeq(pending, n + 1, Len(pending))
        IN IF after = <<>>
           THEN status' = "done" /\ output' = output
           ELSE /\ output' = Append(output, after[1])
                /\ MergePending(stream') = Tail(after)]_vars

C8_Witness ==
    /\ status = "done"
    /\ Len(input) = 4
    /\ IsText(input[1]) /\ input[1].s # <<>>
    /\ input[2] = HardBreak
    /\ input[3] = Text(<<>>) /\ input[4] = Text(<<>>)
    /\ output = <<input[1], HardBreak>>

\* ------------------------------------------------------------------ LinkHighlightStream: claims
HasLinkTag(evs) == \E i \in 1..Len(evs) : IsStartLink(evs[i]) \/ IsEndLink(evs[i])

RECURSIVE UrlSegments(_, _, _)
\* the events of the URL partition of text from offset `from`: the text before each
\* matched URL when there is any, the URL's autolink triple, and the text left at the end
UrlSegments(text, matches, from) ==
    IF matches = <<>> THEN
        IF from < Len(text) THEN <<Text(Slice(text, from, Len(text)))>> ELSE <<>>
    ELSE
        LET m == Head(matches)
            url == Slice(text, m.start, m.end)
        IN (IF from < m.start THEN <<Text(Slice(text, from, m.start))>> ELSE <<>>)
           \o <<StartLink("Autolink", url, <<>>), Text(url), EndLink("Autolink", url, <<>>)>>
           \o UrlSegments(text, Tail(matches), m.end)

RECURSIVE Linkified(_)
\* every text event replaced by the events of its URL partition, the others kept
Linkified(evs) ==
    IF evs = <<>> THEN <<>>
    ELSE (IF IsText(Head(evs))
          THEN UrlSegments(Head(evs).s, LinkFindIter(Head(evs).s, 0), 0)
          ELSE <<Head(evs)>>)
         \o Linkified(Tail(evs))

\* C1: over an upstream without Link tags, every text event is replaced by the events
\* of its URL partition, in order, and every other event is emitted unchanged in place.
C1_LinkifyWithoutLinks ==
    (status = "done" /\ ~HasLinkTag(input)) => output = Linkified(input)

C1_Witness ==
    /\ status = "done"
    /\ ~HasLinkTag(input)
    /\ \E i \in 1..Len(input) : IsText(input[i]) /\ Len(LinkFindIter(input[i].s, 0)) = 2
    /\ \E i \in 1..Len(input) : input[i] = HardBreak
    /\ Len(output) > Len(input) + 4

\* the upstream events the stage has pulled so far
LinkConsumed(self) == SubSeq(input, 1, Len(input) - Len(self.iter.items))

\* evs ends inside a link region: its last Link tag is a Start tag
LinkOpen(evs) ==
    \E i \in 1..Len(evs) :
        /\ IsStartLink(evs[i])
        /\ \A j \in (i + 1)..Len(evs) : ~IsEndLink(evs[j])

\* C2: the inside-link flag is true exactly between an upstream link Start tag and its
\* End tag: once the End tag has been pulled the stage is outside any link again.
C2_InsideLinkExact ==
    stream.inside_link <=> LinkOpen(LinkConsumed(stream))

\* C3: while the stage is between an upstream link Start tag and its End tag, a pull
\* emits exactly the next upstream event, unchanged, and queues nothing.
C3_InsideLinkPassThrough ==
    [][(status = "running" /\ LinkOpen(LinkConsumed(stream)) /\ stream.iter.items # <<>>) =>
        /\ output' = Append(output, Head(stream.iter.items))
        /\ stream'.iter.items = Tail(stream.iter.items)
        /\ stream'.inject_event = <<>>]_vars

C3_Witness ==
    /\ status = "done"
    /\ Len(input) = 3
    /\ IsStartLink(input[1]) /\ input[1].link_type = "Inline"
    /\ input[2] = Text(Url1)
    /\ IsEndLink(input[3])
    /\ output = input

\* C4: the stage is a fixed point on its own output: run over what it emitted, it
\* emits the same events again.
C4_LinkFixedPoint ==
    status = "done" => Collect(LinkHighlightStream_new(VecIter(output))) = output

C4_Witness ==
    /\ status = "done"
    /\ output # input
    /\ \E i \in 1..Len(output) :
        /\ IsStartLink(output[i]) /\ output[i].link_type = "Autolink"
        /\ i + 2 <= Len(output)
        /\ output[i + 1] = Text(output[i].url)
        /\ IsEndLink(output[i + 2])

\* ------------------------------------------------------------------ SyntaxHighlightStream: claims
\* position i of evs lies in a code block: a Start(CodeBlock) before it has no
\* End(CodeBlock) between itself and i
InBlock(evs, i) ==
    \E j \in 1..(i - 1) :
        /\ IsStartCodeBlock(evs[j])
        /\ \A m \in (j + 1)..(i - 1) : ~IsEndCodeBlock(evs[m])

\* the Start(CodeBlock) that opened the block position i lies in: the last one before i
BlockStart(evs, i) ==
    CHOOSE j \in 1..(i - 1) :
        /\ IsStartCodeBlock(evs[j])
        /\ \A m \in (j + 1)..(i - 1) : ~IsStartCodeBlock(evs[m])

RECURSIVE TextContents(_)
TextContents(evs) ==
    IF evs = <<>> THEN <<>>
    ELSE (IF IsText(Head(evs)) THEN <<Head(evs).s>> ELSE <<>>) \o TextContents(Tail(evs))

\* the Html event of the block that the End(CodeBlock) at position i closes
BlockHtml(evs, i) ==
    LET j == BlockStart(evs, i) IN
    Html([html_of |-> TextContents(SubSeq(evs, j + 1, i - 1)),
          syntax |-> FindSyntax(evs[j].language)])

\* the code-block tags of evs are balanced and not nested
BalancedCodeBlocks(evs) ==
    /\ \A i \in 1..Len(evs) :
        /\ IsStartCodeBlock(evs[i]) => ~InBlock(evs, i)
        /\ IsEndCodeBlock(evs[i]) => InBlock(evs, i)
    /\ ~InBlock(evs, Len(evs) + 1)

StartPositions(evs) == {i \in 1..Len(evs) : IsStartCodeBlock(evs[i])}
EndPositions(evs) == {i \in 1..Len(evs) : IsEndCodeBlock(evs[i])}
IsSynthesizedHtml(e) == e.k = "Html" /\ "html_of" \in DOMAIN e.s

\* C9: over balanced, non-nested code-block tags the stage does not panic, and every
\* Start(CodeBlock) it emits is followed, with no code-block tag or synthesized Html
\* between, by exactly one Html event synthesized for that block and then at once by
\* the block's own End(CodeBlock); there are as many synthesized Html events as blocks.
C9_HtmlThenEndPerBlock ==
    BalancedCodeBlocks(input) =>
        /\ status # "panicked"
        /\ status = "done" =>
            /\ Cardinality({j \in 1..Len(output) : IsSynthesizedHtml(output[j])})
                   = Cardinality(StartPositions(input))
            /\ \A i \in StartPositions(output) :
                \E j \in (i + 1)..(Len(output) - 1) :
                    /\ IsSynthesizedHtml(output[j])
                    /\ output[j].s.syntax = FindSyntax(output[i].language)
                    /\ IsEndCodeBlock(output[j + 1])
                    /\ \A m \in (i + 1)..(j - 1) :
                        /\ ~IsSynthesizedHtml(output[m])
                        /\ ~IsStartCodeBlock(output[m])
                        /\ ~IsEndCodeBlock(output[m])
                    \* the End tag is the block's own: the n-th End of the input for
                    \* the n-th Start
                    /\ \E p \in EndPositions(input) :
                        /\ Cardinality({q \in EndPositions(input) : q <= p})
                               = Cardinality({q \in StartPositions(output) : q <= i})
                        /\ output[j + 1] = input[p]

C9_Witness ==
    /\ status = "done"
    /\ Len(input) = 4
    /\ input[1] = StartCodeBlock(Fenced("rs"))
    /\ input[2] = EndCodeBlock(Fenced("rs"))
    /\ input[3] = StartCodeBlock(Indented)
    /\ input[4] = EndCodeBlock(Indented)
    /\ Len(output) = 6
    /\ output[2] = Html([html_of |-> <<>>, syntax |-> "rs"])
    /\ output[5] = Html([html_of |-> <<>>, syntax |-> "Plain Text"])

RECURSIVE HighlightedFrom(_, _)
\* evs from position i on, with the text events that lie in a code block removed and
\* the block's Html event inserted before each End(CodeBlock) that closes a block;
\* nothing stands for an End(CodeBlock) that closes no block, nor for what follows it
HighlightedFrom(evs, i) ==
    IF i > Len(evs) THEN <<>>
    ELSE IF IsText(evs[i]) /\ InBlock(evs, i) THEN HighlightedFrom(evs, i + 1)
    ELSE IF IsEndCodeBlock(evs[i]) THEN
        IF InBlock(evs, i)
        THEN <<BlockHtml(evs, i), evs[i]>> \o HighlightedFrom(evs, i + 1)
        ELSE <<>>
    ELSE <<evs[i]>> \o HighlightedFrom(evs, i + 1)

IsPrefix(a, b) == Len(a) <= Len(b) /\ a = SubSeq(b, 1, Len(a))

\* C10: no text event pulled inside a code block is emitted, and every other upstream
\* event is emitted unchanged and in order: what has been emitted is always a prefix
\* of the input with in-block text removed and one Html event inserted before each
\* End(CodeBlock), and the whole of it at end of stream.
C10_BlockTextConsumed ==
    /\ IsPrefix(output, HighlightedFrom(input, 1))
    /\ status = "done" => output = HighlightedFrom(input, 1)

C10_Witness ==
    /\ status = "done"
    /\ Len(input) = 4
    /\ IsText(input[1])
    /\ IsStartCodeBlock(input[2])
    /\ IsText(input[3])
    /\ IsEndCodeBlock(input[4])
    /\ output = <<input[1], input[2], Html([html_of |-> <<input[3].s>>, syntax |-> "rs"]), input[4]>>

\* the number of upstream events the stage has pulled
SyntaxConsumed(self) == Len(input) - Len(self.iter.items)

\* the End(CodeBlock) events of evs that close no block
StrayEnds(evs) == {i \in EndPositions(evs) : ~InBlock(evs, i)}

\* C11: once the stage has pulled an End(CodeBlock) while no highlighter is active it
\* is in the panic state, and over balanced code-block tags it never is.
C11_StrayEndPanics ==
    /\ \A i \in StrayEnds(input) : SyntaxConsumed(stream) >= i => status = "panicked"
    /\ BalancedCodeBlocks(input) => status # "panicked"

C11_Witness ==
    /\ status = "panicked"
    /\ Len(output) = 3
    /\ IsStartCodeBlock(output[1])
    /\ IsEndCodeBlock(output[3])
    /\ IsEndCodeBlock(input[3])
    /\ SyntaxConsumed(stream) = 3

\* C12: over balanced code-block tags, a highlighter is active exactly when the stage
\* has pulled a Start(CodeBlock) and not yet its End(CodeBlock); the field holds one
\* generator or none.
C12_GeneratorIffInBlock ==
    BalancedCodeBlocks(input) =>
        /\ (stream.html_generator # None) <=> InBlock(input, SyntaxConsumed(stream) + 1)
        /\ stream.html_generator # None =>
            stream.html_generator.syntax
                = FindSyntax(input[BlockStart(input, SyntaxConsumed(stream) + 1)].language)

C12_Witness ==
    /\ BalancedCodeBlocks(input)
    /\ Len(input) = 4
    /\ SyntaxConsumed(stream) = 3
    /\ IsEndCodeBlock(input[2])
    /\ stream.html_generator = ClassedHTMLGenerator_new("Plain Text")
    /\ Len(output) = 4

\* ------------------------------------------------------------------ the pipeline: claims
\* s is exactly one line: it ends in its line terminator and holds no other
IsOneLine(s) ==
    /\ Len(s) >= 1
    /\ s[Len(s)] = "\n"
    /\ \A i \in 1..(Len(s) - 1) : s[i] # "\n"

\* the strings passed so far to the line parser: those of the finished blocks, which
\* their Html events hold, and those of the active generator
FedLines(self, out) ==
    UNION {{out[i].s.html_of[n] : n \in 1..Len(out[i].s.html_of)} :
              i \in {j \in 1..Len(out) : IsSynthesizedHtml(out[j])}}
    \cup (IF self.html_generator = None THEN {}
          ELSE {self.html_generator.lines[n] : n \in 1..Len(self.html_generator.lines)})

\* C13: with TextMergeStream feeding SyntaxHighlightStream, and the tokenizer
\* delivering every text event as one complete line, every string passed to the
\* highlighter's line parser is exactly one line, also for a block of several lines.
C13_FedLineByLine ==
    (\A i \in 1..Len(input) : IsText(input[i]) => IsOneLine(input[i].s)) =>
        \A s \in FedLines(stream, output) : IsOneLine(s)

\* ------------------------------------------------------------------ UnknownRefHandlingStream: claims
RefStarts(evs) == {i \in 1..Len(evs) : IsStartShortcutUnknown(evs[i])}
RefEnds(evs) == {i \in 1..Len(evs) : IsEndShortcutUnknown(evs[i])}

\* the ShortcutUnknown tags pair up and do not nest: the tag after a Start is an
\* End, the tag before an End is a Start
RefBalanced(evs) ==
    LET tags == RefStarts(evs) \cup RefEnds(evs) IN
    /\ \A i \in RefStarts(evs) :
        \E j \in RefEnds(evs) : j > i /\ \A m \in (i + 1)..(j - 1) : m \notin tags
    /\ \A j \in RefEnds(evs) :
        \E i \in RefStarts(evs) : i < j /\ \A m \in (i + 1)..(j - 1) : m \notin tags

\* the Starts immediately followed by a text event, by text and End, by their End
Labelled(evs) == {i \in RefStarts(evs) : i < Len(evs) /\ IsText(evs[i + 1])}
Triples(evs) == {i \in Labelled(evs) : i + 2 <= Len(evs) /\ IsEndShortcutUnknown(evs[i + 2])}
EmptyPairs(evs) == {i \in RefStarts(evs) : i < Len(evs) /\ IsEndShortcutUnknown(evs[i + 1])}

\* the resolver call for the labelled Start at position i
CallAt(evs, i) == [link_url |-> evs[i].url, link_title |-> evs[i].title, text |-> evs[i + 1].s]

RECURSIVE CallsFrom(_, _, _)
\* the calls for the positions of P from i on, in upstream order
CallsFrom(evs, i, P) ==
    IF i > Len(evs) THEN <<>>
    ELSE (IF i \in P THEN <<CallAt(evs, i)>> ELSE <<>>) \o CallsFrom(evs, i + 1, P)

RECURSIVE PushedFor(_, _)
\* what the resolver pushes for a list of calls
PushedFor(mode, calls) ==
    IF calls = <<>> THEN <<>>
    ELSE RefHandlerPushed(mode, Head(calls).link_url, Head(calls).link_title, Head(calls).text)
         \o PushedFor(mode, Tail(calls))

\* the emitted events that do not come from the upstream: the resolver's
PushedOnly(out) == SelectSeq(out, LAMBDA e : e \notin RefInputEvents)

RECURSIVE IsSubseq(_, _)
IsSubseq(a, b) ==
    IF a = <<>> THEN TRUE
    ELSE IF b = <<>> THEN FALSE
    ELSE IF Head(a) = Head(b) THEN IsSubseq(Tail(a), Tail(b))
    ELSE IsSubseq(a, Tail(b))

\* C14: in a stream whose ShortcutUnknown tags pair up, and whose labelled Starts are
\* all followed by text and then End, at end of stream the resolver has been called
\* exactly once per Start-text-End triple, in order, with its dest, title and label,
\* no ShortcutUnknown tag has been emitted, and the emitted resolver events are
\* exactly what was pushed for the triples, in push order.
C14_TripleResolved ==
    (status = "done" /\ RefBalanced(input) /\ Labelled(input) = Triples(input)) =>
        LET calls == CallsFrom(input, 1, Triples(input)) IN
        /\ stream.ref_handler.calls = calls
        /\ PushedOnly(output) = PushedFor(stream.ref_handler.mode, calls)
        /\ RefStarts(output) \cup RefEnds(output) = {}

\* C15: the resolver is called only for a Start immediately followed by a text
\* event: the calls made are, in order, calls of labelled Starts, so a Start
\* followed by its End, by another event or by the end of the stream causes none.
C15_NoCallWithoutText ==
    IsSubseq(stream.ref_handler.calls, CallsFrom(input, 1, Labelled(input)))

C15_Witness ==
    /\ status = "done"
    /\ Len(input) = 5
    /\ input[1] = Text(<<"k">>)
    /\ EmptyPairs(input) = {2}
    /\ input[4] = HardBreak
    /\ input[5] = RefStart
    /\ stream.ref_handler.calls = <<>>
    /\ output = <<Text(<<"k">>)>>

RECURSIVE RefCollect(_)
\* the events and the resolver calls of a whole run of the stage
RefCollect(self) ==
    LET r == UnknownRefHandlingStreamNext(self) IN
    IF r.ev = None \/ r.ev = Panic THEN [evs |-> <<>>, calls |-> r.self.ref_handler.calls]
    ELSE LET rest == RefCollect(r.self) IN [evs |-> <<r.ev>> \o rest.evs, calls |-> rest.calls]

\* C16: when the first ShortcutUnknown Start of the stream is immediately followed
\* by its End, only that pair is swallowed: at end of stream the output is the
\* events before the pair followed by what the stage yields for the events after
\* the pair, and the resolver calls are those of the events after the pair.
C16_EmptyPairOnlySwallowed ==
    status = "done" =>
        \A i \in EmptyPairs(input) :
            (\A j \in 1..(i - 1) : j \notin RefStarts(input)) =>
                LET rest == RefCollect(UnknownRefHandlingStream_new(
                                VecIter(SubSeq(input, i + 2, Len(input))),
                                RefHandler(stream.ref_handler.mode)))
                IN /\ output = SubSeq(input, 1, i - 1) \o rest.evs
                   /\ stream.ref_handler.calls = rest.calls

\* the last position of the region the labelled Start at i opens: the next
\* End(Link ShortcutUnknown) after the label, or the end of the stream
RegionEnd(evs, i) ==
    IF \E j \in RefEnds(evs) : j >= i + 2
    THEN CHOOSE j \in RefEnds(evs) : j >= i + 2 /\ \A m \in RefEnds(evs) : m >= i + 2 => j <= m
    ELSE Len(evs)

RECURSIVE ExpectedRef(_, _, _)
\* the events from position i on with every region replaced by what the resolver
\* pushed for its label
ExpectedRef(mode, evs, i) ==
    IF i > Len(evs) THEN <<>>
    ELSE IF i \in Labelled(evs)
    THEN RefHandlerPushed(mode, evs[i].url, evs[i].title, evs[i + 1].s)
         \o ExpectedRef(mode, evs, RegionEnd(evs, i) + 1)
    ELSE <<evs[i]>> \o ExpectedRef(mode, evs, i + 1)

\* C17: when every ShortcutUnknown Start is immediately followed by a text event,
\* what has been emitted is always a prefix of the upstream with each region, from
\* its Start through the next End(Link ShortcutUnknown) after the label, replaced by
\* the resolver's events, and all of it at end of stream: nothing beyond the End
\* is discarded, every event outside a region is emitted once, unchanged, in order.
C17_DrainExactlyRegion ==
    RefStarts(input) \subseteq Labelled(input) =>
        LET expected == ExpectedRef(stream.ref_handler.mode, input, 1) IN
        /\ IsPrefix(output, expected)
        /\ status = "done" => output = expected
        /\ status # "panicked"

C17_Witness ==
    /\ status = "done"
    /\ stream.ref_handler.mode = "text"
    /\ input = <<RefStart, Text(<<"k">>), HardBreak, RefEnd, Text(<<"z">>)>>
    /\ output = <<Text(<<"[", "k", "]">>), Text(<<"z">>)>>

\* the labelled Starts reached outside any region whose End never arrives
Unclosed(evs) ==
    {i \in Labelled(evs) :
        /\ \A j \in 1..(i - 1) : j \notin RefStarts(evs)
        /\ \A j \in (i + 2)..Len(evs) : j \notin RefEnds(evs)}

\* C18: when the End tag of an opened, labelled link never arrives, the drain stops
\* with the upstream: nothing is emitted but the events before the link and then
\* the resolver's events for it, the run does not panic, and once the stage has
\* returned end-of-stream the upstream is used up, the queue is empty and all of
\* the resolver's events have been emitted.
C18_DrainStopsAtExhaustion ==
    \A i \in Unclosed(input) :
        LET expected == SubSeq(input, 1, i - 1)
                        \o RefHandlerPushed(stream.ref_handler.mode,
                                            input[i].url, input[i].title, input[i + 1].s)
        IN /\ IsPrefix(output, expected)
           /\ status # "panicked"
           /\ status = "done" =>
                /\ output = expected
                /\ stream.iter.items = <<>>
                /\ stream.inject_event = <<>>
                /\ stream.ref_handler.calls = <<CallAt(input, i)>>

C18_Witness ==
    /\ status = "done"
    /\ stream.ref_handler.mode = "link"
    /\ input = <<HardBreak, RefStart, Text(<<"k">>), Text(<<"z">>), RefStart>>
    /\ Len(output) = 4
    /\ output[4] = EndLink("Inline", <<"/", "k">>, <<>>)

\* ------------------------------------------------------------------ Partition: claims
RECURSIVE PartsText(_)
\* the concatenation of the texts of a sequence of parts
PartsText(parts) ==
    IF parts = <<>> THEN <<>> ELSE Head(parts).text \o PartsText(Tail(parts))

\* C19: the parts yielded so far concatenate to a prefix of the source string, each
\* part being the source slice at the offset where the parts before it end, and
\* once Partition has returned None they concatenate to the whole source string.
C19_PartitionRoundTrip ==
    /\ IsPrefix(PartsText(output), input.text)
    /\ status = "done" => PartsText(output) = input.text

C19_Witness ==
    /\ status = "done"
    /\ input.text = <<"-", "a", "-">>
    /\ input.matches = <<[start |-> 0, end |-> 1], [start |-> 2, end |-> 3]>>
    /\ output = <<Match(<<"-">>), NoMatch(<<"a">>), Match(<<"-">>)>>

RECURSIVE MatchParts(_, _)
\* the Match parts of the matches that are not zero-width
MatchParts(text, matches) ==
    IF matches = <<>> THEN <<>>
    ELSE (IF Head(matches).start = Head(matches).end THEN <<>>
          ELSE <<Match(Slice(text, Head(matches).start, Head(matches).end))>>)
         \o MatchParts(text, Tail(matches))

\* C20: no yielded part is empty; an empty source string yields no part; and once
\* Partition has returned None the Match parts are exactly the matches that are not
\* zero-width, in order.
C20_NoEmptyPart ==
    /\ \A i \in 1..Len(output) : output[i].text # <<>>
    /\ input.text = <<>> => output = <<>>
    /\ status = "done" =>
        SelectSeq(output, LAMBDA p : p.kind = "Match") = MatchParts(input.text, input.matches)

C20_Witness ==
    /\ status = "done"
    /\ input.text = <<"a", "-", "-">>
    /\ input.matches = <<[start |-> 0, end |-> 0], [start |-> 1, end |-> 3]>>
    /\ output = <<NoMatch(<<"a">>), Match(<<"-", "-">>)>>

\* the positions of out whose part and the next have the same kind
SameKindPairs(out) == {i \in 1..(Len(out) - 1) : out[i].kind = out[i + 1].kind}

\* C21: no two consecutive parts yielded by Partition have the same kind, whatever
\* the text and the matches, zero-width and directly adjacent matches included.
C21_StrictAlternation == SameKindPairs(output) = {}

RECURSIVE ExpectedParts(_, _, _)
\* the parts for the text from offset pos on: before each match the text since the
\* previous one, then the match, each left out when empty; at last the rest
ExpectedParts(text, matches, pos) ==
    IF matches = <<>>
    THEN IF pos = Len(text) THEN <<>> ELSE <<NoMatch(Slice(text, pos, Len(text)))>>
    ELSE LET m == Head(matches) IN
         (IF m.start = pos THEN <<>> ELSE <<NoMatch(Slice(text, pos, m.start))>>)
         \o (IF m.start = m.end THEN <<>> ELSE <<Match(Slice(text, m.start, m.end))>>)
         \o ExpectedParts(text, Tail(matches), m.end)

\* C22: the parts yielded are, in order, one Match part per non-empty match of the
\* match iterator and one NoMatch part per non-empty stretch between them: two
\* directly adjacent matches are yielded as two consecutive Match parts.
C22_MatchPartPerMatch ==
    LET expected == ExpectedParts(input.text, input.matches, 0) IN
    /\ IsPrefix(output, expected)
    /\ status = "done" => output = expected

C22_Witness ==
    /\ status = "done"
    /\ input.text = <<"-", "-", "a">>
    /\ input.matches = <<[start |-> 0, end |-> 1], [start |-> 1, end |-> 2]>>
    /\ output = <<Match(<<"-">>), Match(<<"-">>), NoMatch(<<"a">>)>>

\* ------------------------------------------------------------------ the pending queues: claims
\* C23: a call of LinkHighlightStream::next with a non-empty queue emits the front
\* of the queue, leaves the rest queued and does not touch the upstream: the events
\* queued for one text event all leave, first in first out, before the next pull.
C23_LinkQueueDrainedFirst ==
    [][stream.inject_event # <<>> =>
          /\ stream'.iter = stream.iter
          /\ stream'.inject_event = Tail(stream.inject_event)
          /\ output' = Append(output, Head(stream.inject_event))
          /\ status' = "running"]_vars

C23_Witness ==
    /\ stream.kind = "LinkHighlight"
    /\ Len(stream.inject_event) = 2
    /\ IsText(stream.inject_event[1])
    /\ IsEndLink(stream.inject_event[2])
    /\ stream.iter.items # <<>>
    /\ Len(output) = 2

LinkBalanced(evs) ==
    LET starts == {i \in 1..Len(evs) : IsStartLink(evs[i])}
        ends == {i \in 1..Len(evs) : IsEndLink(evs[i])}
    IN /\ \A i \in starts :
            \E j \in ends : j > i /\ \A m \in (i + 1)..(j - 1) : m \notin starts \cup ends
       /\ \A j \in ends :
            \E i \in starts : i < j /\ \A m \in (i + 1)..(j - 1) : m \notin starts \cup ends

RECURSIVE TextRunEnd(_, _)
\* the last position of the run of consecutive text events that holds position i
TextRunEnd(evs, i) ==
    IF i < Len(evs) /\ IsText(evs[i + 1]) THEN TextRunEnd(evs, i + 1) ELSE i

RECURSIVE MergedLinkified(_, _)
\* the events from position i on, every run of consecutive text events outside a
\* link replaced by the URL partition of its concatenated content, and one inside
\* a link by a single text event
MergedLinkified(evs, i) ==
    IF i > Len(evs) THEN <<>>
    ELSE IF IsText(evs[i]) THEN
        LET j == TextRunEnd(evs, i)
            s == ConcatTexts(SubSeq(evs, i, j))
        IN (IF LinkOpen(SubSeq(evs, 1, i - 1)) THEN <<Text(s)>>
            ELSE UrlSegments(s, LinkFindIter(s, 0), 0))
           \o MergedLinkified(evs, j + 1)
    ELSE <<evs[i]>> \o MergedLinkified(evs, i + 1)

\* C25: with TextMergeStream feeding LinkHighlightStream, and the Link tags of the
\* upstream paired, at end of stream every run of consecutive text events outside a
\* link has come out as the URL partition of its concatenated content: a URL
\* delivered in pieces is one autolink triple for the complete URL.
C25_FragmentedUrlOneLink ==
    (status = "done" /\ LinkBalanced(input)) => output = MergedLinkified(input, 1)

\* ------------------------------------------------------------------ what the highlighter is fed: claims
\* the End(CodeBlock) tags of evs that close a block
ClosingEnds(evs) == {i \in EndPositions(evs) : InBlock(evs, i)}

\* the k-th position of the set S of positions
KthOf(S, k) == CHOOSE i \in S : Cardinality({m \in S : m <= i}) = k

\* the positions of the synthesized Html events of out
SynthesizedAt(out) == {j \in 1..Len(out) : IsSynthesizedHtml(out[j])}

\* C26: the contents fed to the active highlighter are, each once and in order, the
\* contents of the text events pulled since the Start(CodeBlock) that created it, and
\* the k-th synthesized Html event is made of the text events between the k-th
\* closed block's Start and End tags and of nothing else: text of an earlier block
\* is in no later block's Html.
C26_FedExactlyBlockText ==
    LET n == SyntaxConsumed(stream) IN
    /\ stream.html_generator # None =>
        /\ InBlock(input, n + 1)
        /\ stream.html_generator.lines
               = TextContents(SubSeq(input, BlockStart(input, n + 1) + 1, n))
    /\ Cardinality(SynthesizedAt(output)) <= Cardinality(ClosingEnds(input))
    /\ \A j \in SynthesizedAt(output) :
        output[j] = BlockHtml(input, KthOf(ClosingEnds(input),
                                           Cardinality({m \in SynthesizedAt(output) : m <= j})))

C26_Witness ==
    /\ input = <<StartCodeBlock(Indented), Text(<<"a", "\n">>),
                 EndCodeBlock(Indented), StartCodeBlock(Indented)>>
    /\ SyntaxConsumed(stream) = 4
    /\ stream.html_generator = ClassedHTMLGenerator_new("Plain Text")
    /\ Len(output) = 4
    /\ output[2] = Html([html_of |-> <<<<"a", "\n">>>>, syntax |-> "Plain Text"])

\* ------------------------------------------------------------------ termination: claims
\* once the stage has returned None, a further call returns None and changes nothing
EndOfStreamKept == status = "done" => IterNext(stream) = [self |-> stream, ev |-> None]

\* the events LinkHighlightStream queues for an upstream event
LinkQueued(e) ==
    IF IsText(e) THEN Len(FlatMapParts(PartitionCollect(LinkPartition(e.s)))) ELSE 0

RECURSIVE LinkPullsFor(_)
\* for every event of evs the event itself and what it can queue
LinkPullsFor(evs) ==
    IF evs = <<>> THEN 0 ELSE 1 + LinkQueued(Head(evs)) + LinkPullsFor(Tail(evs))

\* a bound on the pulls that still return an event: what the stage holds back,
\* and for every event left in the upstream the event itself and what it can queue
PullsLeft(self) ==
    CASE self.kind = "TextMerge" ->
            Len(self.iter.items) + (IF self.last_event = None THEN 0 ELSE 1)
      [] self.kind = "LinkHighlight" ->
            Len(self.inject_event)
            + LinkPullsFor(self.iter.items)
      [] self.kind = "UnknownRefHandling" ->
            Len(self.inject_event) + 4 * Len(self.iter.items)
      [] self.kind = "SyntaxHighlight" ->
            (IF self.inject_event = None THEN 0 ELSE 1) + 2 * Len(self.iter.items)

\* a call of next() returns, and a pull that returns an event lowers the bound
PullProgress ==
    /\ [](status = "running" => IterNext(stream).self.kind = stream.kind)
    /\ [][status' = "running" => PullsLeft(stream') < PullsLeft(stream)]_vars

Deciding(files) == {i \in 1..Len(files) : files[i] # "NotFound"}

\* C28: no file after the first one whose read does not fail with NotFound is ever
\* read; the call returns that file's Config, read error or parse error, having
\* read the files up to it in order; when there is no such file it reads them all
\* and returns the NotFound error.
C28_FirstFoundDecides ==
    /\ \A f \in Deciding(input) : \A n \in 1..Len(output) : output[n] <= f
    /\ status = "done" =>
        IF Deciding(input) = {}
        THEN stream.result = ErrNoFiles /\ output = [n \in 1..Len(input) |-> n]
        ELSE LET f == CHOOSE i \in Deciding(input) : \A j \in Deciding(input) : i <= j IN
             /\ output = [n \in 1..f |-> n]
             /\ stream.result = CASE input[f] = "ValidToml" -> OkConfig(f)
                                  [] input[f] = "InvalidToml" -> ErrParse(f)
                                  [] input[f] = "PermissionDenied" -> ErrRead(f)

C28_Witness ==
    /\ status = "done"
    /\ input = <<"NotFound", "PermissionDenied", "ValidToml">>
    /\ output = <<1, 2>>
    /\ stream.result = ErrRead(2)

\* ------------------------------------------------------------------ Database: claims
\* the step is a call of update_article
UpdateCalled == Len(output') = 1 /\ output'[1].call = "update_article"

\* C29: a call of update_article with neither title nor text returns an error and
\* leaves the database as it was: no article's title, text, date_modified or
\* revision changes.
C29_UpdateWithoutColumnsFails ==
    [][(UpdateCalled /\ output'[1].title = None /\ output'[1].text = None) =>
          /\ output'[1].result = Err
          /\ stream'.conn = stream.conn]_vars

C29_Witness ==
    /\ Len(output) = 1
    /\ output[1].call = "update_article"
    /\ output[1].id = 1
    /\ output[1].title = None
    /\ output[1].text = None
    /\ output[1].result = Err
    /\ Len(stream.conn.article) = 1
    /\ stream.conn.article[1].revision = 1

\* C30: a call of update_article with a title or a text that returns Ok leaves
\* every article but the one of the given id as it was and adds or removes none;
\* of that one, title and text each keep their value when the parameter is absent
\* and take the filtered parameter when present, revision grows by exactly 1 and
\* date_created stays; when no article has the id nothing changes.
C30_UpdateChangesOnlyTarget ==
    [][(/\ UpdateCalled
        /\ output'[1].title # None \/ output'[1].text # None
        /\ output'[1].result # Err) =>
          LET c == output'[1]
              before == stream.conn.article
              after == stream'.conn.article
          IN /\ Len(after) = Len(before)
             /\ \A j \in 1..Len(before) : j # c.id => after[j] = before[j]
             /\ IF c.id \in 1..Len(before)
                THEN /\ c.result = Ok(1)
                     /\ after[c.id].title =
                            (IF c.title = None THEN before[c.id].title ELSE filter_chars(c.title.s))
                     /\ after[c.id].text =
                            (IF c.text = None THEN before[c.id].text ELSE filter_chars(c.text.s))
                     /\ after[c.id].revision = before[c.id].revision + 1
                     /\ after[c.id].date_created = before[c.id].date_created
                ELSE c.result = Ok(0) /\ after = before]_vars

C30_Witness ==
    /\ Len(output) = 1
    /\ output[1].call = "update_article"
    /\ output[1].id = 1
    /\ output[1].title = None
    /\ output[1].text = Some(<<"y", "\f">>)
    /\ output[1].result = Ok(1)
    /\ Len(stream.conn.article) = 2
    /\ stream.conn.article[1] =
           [title |-> <<"a">>, text |-> <<"y">>, date_created |-> 0, date_modified |-> 2,
            revision |-> 1]

\* ------------------------------------------------------------------ WikiSemVer: claims
\* s is exactly three dot-separated unsigned decimal numbers: two dots, digits
\* elsewhere, no component empty, every value within u32
IsThreeTuple(s) ==
    LET dots == {i \in 1..Len(s) : s[i] = "."} IN
    /\ Cardinality(dots) = 2
    /\ \A i \in 1..Len(s) : i \notin dots => s[i] \in Digits
    /\ 1 \notin dots /\ Len(s) \notin dots
    /\ \A i \in dots : i + 1 \notin dots
    /\ \A c \in 1..3 : FitsU32(StripZeros(StrSplit(s, ".")[c]))

\* C31: reading a WikiSemVer from the stored string succeeds exactly when the
\* string is three dot-separated unsigned decimal numbers without a sign; every
\* other string is rejected.
C31_OnlyThreeTuples ==
    status = "done" => ((stream.result.k = "Ok") <=> IsThreeTuple(input))

\* ------------------------------------------------------------------ pipeline: claims
\* the positions of evs that hold a Link tag inside a code block
LinksInBlock(evs) ==
    {i \in 1..Len(evs) : (IsStartLink(evs[i]) \/ IsEndLink(evs[i])) /\ InBlock(evs, i)}

\* the positions of evs that hold a text with a URL inside a code block
UrlsInBlock(evs) ==
    {i \in 1..Len(evs) : IsText(evs[i]) /\ LinkFindIter(evs[i].s, 0) # <<>> /\ InBlock(evs, i)}

\* C32: in the order TextMergeStream, SyntaxHighlightStream, LinkHighlightStream the
\* output holds no Link event between a Start(CodeBlock) and its End(CodeBlock), also
\* when the text of the code block contains a URL.
C32_NoLinkInCodeBlock == LinksInBlock(output) = {}

C32_Witness ==
    /\ status = "done"
    /\ UrlsInBlock(input) # {}
    /\ \E i \in 1..Len(output) : IsSynthesizedHtml(output[i])
    /\ \E i \in 1..Len(output) : IsStartLink(output[i])

\* ------------------------------------------------------------------ LinkHighlightStream: visible text
RECURSIVE VisibleText(_)
\* the contents of the text events of evs, concatenated in order
VisibleText(evs) ==
    IF evs = <<>> THEN <<>>
    ELSE (IF IsText(Head(evs)) THEN Head(evs).s ELSE <<>>) \o VisibleText(Tail(evs))

\* C33: the concatenated contents of the text events the stage emits equal the
\* concatenated contents of the text events of its input, for every input.
C33_VisibleTextKept ==
    /\ status = "done" => VisibleText(output) = VisibleText(input)
    /\ status = "running" =>
           VisibleText(output) \o VisibleText(stream.inject_event)
               = VisibleText(LinkConsumed(stream))

C33_Witness ==
    /\ status = "done"
    /\ \E i \in 1..Len(input) : IsText(input[i]) /\ Len(LinkFindIter(input[i].s, 0)) = 2
    /\ \E i \in 1..Len(input) : IsStartLink(input[i])
    /\ Len(output) > Len(input) + 4
    /\ VisibleText(output) # <<>>

\* ------------------------------------------------------------------ UnknownRefHandlingStream: no tag leaks
\* C34: a ShortcutUnknown Start tag of the upstream is never emitted, whatever the
\* input, and over an upstream whose ShortcutUnknown tags pair up no ShortcutUnknown
\* End tag is emitted either (the resolver here pushes none of its own).
C34_NoShortcutUnknownEmitted ==
    /\ RefStarts(output) = {}
    /\ RefBalanced(input) => RefEnds(output) = {}

C34_Witness ==
    /\ status = "done"
    /\ RefBalanced(input)
    /\ Cardinality(RefStarts(input)) = 2
    /\ EmptyPairs(input) # {}
    /\ Triples(input) # {}
    /\ stream.ref_handler.mode = "link"
    /\ \E i \in 1..Len(output) : IsStartLink(output[i])

\* ------------------------------------------------------------------ SyntaxHighlightStream: fatal states
\* C35: the stage is in the panic state only after it has pulled an End(CodeBlock)
\* while no highlighter was active; a failure the highlighter reports for a fed
\* text does not abort the stream.
C35_PanicOnlyOnStrayEnd ==
    status = "panicked" => StrayEnds(SubSeq(input, 1, SyntaxConsumed(stream))) # {}

\* ------------------------------------------------------------------ expand_id_in_text: claims
\* the first position of c in s (s holds c)
IndexOf(s, c) == CHOOSE i \in 1..Len(s) : s[i] = c /\ \A j \in 1..(i - 1) : s[j] # c

RECURSIVE Unexpanded(_)
\* out with every anchor replaced by the token "id:<id>" it was pushed for
Unexpanded(out) ==
    IF out = <<>> THEN <<>>
    ELSE IF Head(out) = "<" THEN
        LET after == SubSeq(out, Len(AnchorHead) + 1, Len(out))
            id == SubSeq(after, 1, IndexOf(after, "'") - 1)
        IN <<"i", "d", ":">> \o id
           \o Unexpanded(SubSeq(out, Len(ArticleAnchor(id)) + 1, Len(out)))
    ELSE <<Head(out)>> \o Unexpanded(Tail(out))

\* the end of the run of digits that starts at position p of text
RECURSIVE DigitsEnd(_, _)
DigitsEnd(text, p) ==
    IF p <= Len(text) /\ text[p] \in Digits THEN DigitsEnd(text, p + 1) ELSE p - 1

\* the positions where "id:", one or more digits forming a row id, and then a
\* non-digit byte start
Occurrences(text) ==
    {p \in 1..Len(text) :
        /\ p + 4 <= Len(text)
        /\ text[p] = "i" /\ text[p + 1] = "d" /\ text[p + 2] = ":"
        /\ DigitsEnd(text, p + 3) >= p + 3
        /\ DigitsEnd(text, p + 3) < Len(text)
        /\ ParseRowid(SubSeq(text, p + 3, DigitsEnd(text, p + 3))) # Err}

RECURSIVE ExpandedFrom(_, _)
\* text from position p on with every occurrence replaced by its anchor
ExpandedFrom(text, p) ==
    IF p > Len(text) THEN <<>>
    ELSE IF p \in Occurrences(text) THEN
        LET e == DigitsEnd(text, p + 3) IN
        ArticleAnchor(ParseRowid(SubSeq(text, p + 3, e)).n) \o ExpandedFrom(text, e + 1)
    ELSE <<text[p]>> \o ExpandedFrom(text, p + 1)

\* text ends in the middle of a candidate token: in "i", "id", "id:" or "id:<digits>"
EndsMidToken(text) ==
    \E p \in 1..Len(text) :
        LET tail == SubSeq(text, p, Len(text)) IN
        \/ tail = <<"i">>
        \/ tail = <<"i", "d">>
        \/ /\ Len(tail) >= 3
           /\ SubSeq(tail, 1, 3) = <<"i", "d", ":">>
           /\ \A i \in 4..Len(tail) : tail[i] \in Digits

\* C36: no input byte is lost: the returned text, with every anchor put back to the
\* token it replaced, is the input, also when the input ends in "i", "id", "id:"
\* or "id:<digits>".
C36_NoInputLost ==
    status = "done" => Unexpanded(output) = input

\* C37: every occurrence of "id:", digits forming a row id and then a non-digit
\* byte is replaced by the anchor of that id, with the stored title or "Unknown
\* Article!", the non-digit byte kept, wherever the occurrence starts.
C37_EveryOccurrenceExpanded ==
    (status = "done" /\ ~EndsMidToken(input)) => output = ExpandedFrom(input, 1)

\* ------------------------------------------------------------------ Database: titles
\* C38: after any sequence of create_article and update_article calls no stored
\* article has an empty title: a title that is empty, or empty once the forbidden
\* control characters are filtered out, is never written.
C38_NoEmptyTitleStored ==
    \A i \in 1..Len(stream.conn.article) : stream.conn.article[i].title # <<>>

====
